---- MODULE Spec2Model ----
(***************************************************************************)
(* University timetable generator: the constraint-satisfaction engine of   *)
(* src/src/csp.py (setup_csp, is_consistent, revise, ac3, select_mrv,      *)
(* solve_backtracking, save_timetable), its driver src/src/main.py, the    *)
(* CP-SAT formulation of src/src/csp_solver.py and the queries of          *)
(* src/src/data_loader.py it is built from.                                *)
(*                                                                         *)
(* A Variable key is the string f"{course_id}_{vtype}_{section_id}".  A    *)
(* string is represented by the sequence of its '_'-separated segments     *)
(* (what str.split('_') returns), so that split is exact and '_'.join of   *)
(* two segment lists is equal exactly when the lists are equal (with []    *)
(* and [''] both joining to '').  A candidate value is the triple          *)
(* <<TimeSlotID, RoomID, InstructorID>>.  A dict is a function whose       *)
(* DOMAIN is its key set; a list is a sequence.                            *)
(***************************************************************************)
EXTENDS Integers, Sequences, FiniteSets, TLC

\* ------------------------------------------------------------ bounds
\* The largest total number of candidate values over all Domains of an input.
MaxTotal == 5

\* The same for the specifications that explore every processing order of
\* ac3's queue or check that ac3 terminates.
MaxTotalSmall == 4

\* The identifiers of the loaded data, in sheet order.
TimeSlotIDs == <<"TS1", "TS2">>
RoomIDs == <<"R1", "R2">>
InstructorIDs == <<"I1", "I2">>

\* Variable keys, as split('_') sees them.  K1 and K2 are sessions of the same
\* section S1, K3 is a session of another section.
K1 == <<"C1", "Lecture", "S1">>
K2 == <<"C2", "Lecture", "S1">>
K3 == <<"C1", "Lab", "S2">>

\* The variables lists of the inputs: lists of distinct keys, the prefixes of
\* VarOrder.
VarOrder == <<K1, K2, K3>>
VarLists == {SubSeq(VarOrder, 1, n) : n \in 0..Len(VarOrder)}

\* ------------------------------------------------------------ helpers
Range(s) == {s[i] : i \in DOMAIN s}

\* [x for x in s if x in S]
RECURSIVE SeqFilter(_, _)
SeqFilter(s, S) ==
  IF s = <<>> THEN <<>>
  ELSE (IF Head(s) \in S THEN <<Head(s)>> ELSE <<>>) \o SeqFilter(Tail(s), S)

\* s is a subsequence of t: s is obtained from t by deleting elements.
RECURSIVE IsSubsequence(_, _)
IsSubsequence(s, t) ==
  IF s = <<>> THEN TRUE
  ELSE IF t = <<>> THEN FALSE
  ELSE IF Head(s) = Head(t) THEN IsSubsequence(Tail(s), Tail(t))
  ELSE IsSubsequence(s, Tail(t))

\* list(product(a, b, c)): the triples in lexicographic order of positions.
product(a, b, c) ==
  [n \in 1..(Len(a) * Len(b) * Len(c)) |->
     << a[((n - 1) \div (Len(b) * Len(c))) + 1],
        b[(((n - 1) \div Len(c)) % Len(b)) + 1],
        c[((n - 1) % Len(c)) + 1] >>]

\* Every candidate value, in the order setup_csp materialises a Domain.
AllValues == product(TimeSlotIDs, RoomIDs, InstructorIDs)

\* The Domains of at most b values: the subsequences of the product order
\* (setup_csp's filter and revise keep the order of the values).
DomainsUpTo ==
  [b \in 0..Len(AllValues) |->
     {SeqFilter(AllValues, T) : T \in {X \in SUBSET Range(AllValues) : Cardinality(X) <= b}}]

\* What is left of the budget b after the Domain d.
Left(b, d) == IF Len(d) >= b THEN 0 ELSE b - Len(d)

\* The Domains the n-th Variable can have in an input of `count` Variables
\* when b values are left of the budget.
DomainsFor(n, count, b) ==
  IF n > count THEN {<<>>}
  ELSE DomainsUpTo[IF b > Len(AllValues) THEN Len(AllValues) ELSE b]

\* constraints of setup_csp: every pair of variables (i < j), in list order.
RECURSIVE PairsFrom(_, _)
PairsFrom(v, rest) ==
  IF rest = <<>> THEN <<>> ELSE << <<v, Head(rest)>> >> \o PairsFrom(v, Tail(rest))

RECURSIVE MakeConstraints(_)
MakeConstraints(vs) ==
  IF vs = <<>> THEN <<>>
  ELSE PairsFrom(Head(vs), Tail(vs)) \o MakeConstraints(Tail(vs))

\* ------------------------------------------------------------ state
VARIABLES
  variables,      \* list of Variable keys (setup_csp's variables)
  domains,        \* dict key -> list of candidate values
  constraints,    \* list of pairs of keys
  queue,          \* ac3's deque of directed arcs
  ac3_ret,        \* what ac3 returned: "pending", "True" or "False"
  entry_domains,  \* the domains as they were when ac3 was called
  schedule,       \* solve_backtracking's dict key -> value
  stack,          \* the active calls of solve_backtracking below the entry
  bt_ret,         \* what the last finished call returned: "pending", "None", "schedule"
  bt_invoked,     \* whether solve_backtracking has been called in this run
  console,        \* the outcome messages printed so far
  saved,          \* the timetable save_timetable wrote, if any
  loader,         \* the DataLoader's processed data
  solver,         \* the fields of the CSPTimetableSolver
  csv,            \* the file export_to_csv wrote, if any
  data,           \* the dataset dict setup_csp is called with
  call_args,      \* the arguments of a function called on its own
  call_ret,       \* what that function returned
  pc              \* the position of the run

vars == <<variables, domains, constraints, queue, ac3_ret, entry_domains,
          schedule, stack, bt_ret, bt_invoked, console, saved, loader, solver,
          csv, data, call_args, call_ret, pc>>

\* The state of the CP-SAT formulation, which the engine of csp.py never touches.
cpsat_vars == <<loader, solver, csv>>

\* The arguments and the result of a function called on its own.
call_vars == <<call_args, call_ret>>

\* The state of the engine of csp.py, which the CP-SAT formulation never touches.
engine_vars == <<variables, domains, constraints, queue, ac3_ret, entry_domains,
                 schedule, stack, bt_ret, bt_invoked, saved>>

\* ------------------------------------------------------------ consistency
\* '_'.join(v.split('_')[2:])
section_of(v) == IF Len(v) < 3 THEN <<"">> ELSE SubSeq(v, 3, Len(v))

\* Mutant of is_consistent: the section rule is applied only when the first
\* Variable is a lecture.
is_consistent_lecture_first(val1, val2, v1, v2) ==
  LET t1 == val1[1] r1 == val1[2] i1 == val1[3]
      t2 == val2[1] r2 == val2[2] i2 == val2[3]
  IN IF t1 = t2 /\ (r1 = r2 \/ i1 = i2) THEN FALSE
     ELSE IF t1 = t2 /\ v1[2] = "Lecture" /\ section_of(v1) = section_of(v2) THEN FALSE
     ELSE TRUE

\* Mutant of is_consistent: the room is not compared.
is_consistent_ignores_room(val1, val2, v1, v2) ==
  LET t1 == val1[1] i1 == val1[3]
      t2 == val2[1] i2 == val2[3]
  IN IF t1 = t2 /\ i1 = i2 THEN FALSE
     ELSE IF t1 = t2 /\ section_of(v1) = section_of(v2) THEN FALSE
     ELSE TRUE

\* Mutant of is_consistent: the instructor is not compared.
is_consistent_ignores_instructor(val1, val2, v1, v2) ==
  LET t1 == val1[1] r1 == val1[2]
      t2 == val2[1] r2 == val2[2]
  IN IF t1 = t2 /\ r1 = r2 THEN FALSE
     ELSE IF t1 = t2 /\ section_of(v1) = section_of(v2) THEN FALSE
     ELSE TRUE

is_consistent(val1, val2, v1, v2) ==
  LET t1 == val1[1] r1 == val1[2] i1 == val1[3]
      t2 == val2[1] r2 == val2[2] i2 == val2[3]
  IN IF t1 = t2 /\ (r1 = r2 \/ i1 = i2) THEN FALSE
     ELSE IF t1 = t2 /\ section_of(v1) = section_of(v2) THEN FALSE
     ELSE TRUE

\* ------------------------------------------------------------ AC-3
\* [d1 for d1 in dom1 if any(is_consistent(d1, d2, v1, v2) for d2 in dom2)]
RECURSIVE supported_values(_, _, _, _)
supported_values(dom1, dom2, v1, v2) ==
  IF dom1 = <<>> THEN <<>>
  ELSE (IF \E j \in DOMAIN dom2 : is_consistent(Head(dom1), dom2[j], v1, v2)
        THEN <<Head(dom1)>> ELSE <<>>)
       \o supported_values(Tail(dom1), dom2, v1, v2)

\* Mutant of revise: "all" in place of "any" (a value is kept only when every
\* value of the other Domain is consistent with it).
revise_all(doms, v1, v2) ==
  LET new == SelectSeq(doms[v1],
                LAMBDA d1 : \A j \in DOMAIN doms[v2] : is_consistent(d1, doms[v2][j], v1, v2))
  IN [domains |-> [doms EXCEPT ![v1] = new],
      revised |-> Len(new) < Len(doms[v1])]

\* Mutant of revise: support is looked for in domains[v1] instead of domains[v2].
revise_own_domain(doms, v1, v2) ==
  LET new == supported_values(doms[v1], doms[v1], v1, v2)
  IN [domains |-> [doms EXCEPT ![v1] = new],
      revised |-> Len(new) < Len(doms[v1])]

\* Mutant of revise: the kept values are stored in reverse order.
revise_reversed(doms, v1, v2) ==
  LET new == supported_values(doms[v1], doms[v2], v1, v2)
  IN [domains |-> [doms EXCEPT ![v1] = [n \in 1..Len(new) |-> new[Len(new) + 1 - n]]],
      revised |-> Len(new) < Len(doms[v1])]

\* Mutant of revise: "<=" in place of "<" in the returned comparison.
revise_always(doms, v1, v2) ==
  LET new == supported_values(doms[v1], doms[v2], v1, v2)
  IN [domains |-> [doms EXCEPT ![v1] = new],
      revised |-> Len(new) <= Len(doms[v1])]

\* revise(domains, v1, v2): the domains after the call and the value returned.
revise(doms, v1, v2) ==
  LET new == supported_values(doms[v1], doms[v2], v1, v2)
  IN [domains |-> [doms EXCEPT ![v1] = new],
      revised |-> Len(new) < Len(doms[v1])]

\* Mutant of the re-enqueue step: the arcs (v1, neighbor) are enqueued.
neighbor_arcs_outgoing(vs, v1, v2) ==
  LET others == SelectSeq(vs, LAMBDA x : x \notin {v1, v2})
  IN [n \in DOMAIN others |-> <<v1, others[n]>>]

\* [(neighbor, v1) for neighbor in variables if neighbor not in (v1, v2)]
RECURSIVE neighbor_arcs(_, _, _)
neighbor_arcs(vs, v1, v2) ==
  IF vs = <<>> THEN <<>>
  ELSE (IF Head(vs) \notin {v1, v2} THEN << <<Head(vs), v1>> >> ELSE <<>>)
       \o neighbor_arcs(Tail(vs), v1, v2)

\* deque(constraints + [(b, a) for a, b in constraints])
initial_queue(cs) == cs \o [n \in DOMAIN cs |-> <<cs[n][2], cs[n][1]>>]

\* q without its k-th element (popleft for k = 1).
RemoveAt(q, k) == SubSeq(q, 1, k - 1) \o SubSeq(q, k + 1, Len(q))

\* One iteration of ac3's while loop, taking the k-th arc of the queue.
ac3_iteration(vs, doms, q, k) ==
  LET v1 == q[k][1]
      v2 == q[k][2]
      r == revise(doms, v1, v2)
  IN IF r.revised
     THEN IF r.domains[v1] = <<>>
          THEN [domains |-> r.domains, queue |-> RemoveAt(q, k), ret |-> "False"]
          ELSE [domains |-> r.domains,
                queue |-> RemoveAt(q, k) \o neighbor_arcs(vs, v1, v2),
                ret |-> "pending"]
     ELSE [domains |-> r.domains, queue |-> RemoveAt(q, k), ret |-> "pending"]

\* ac3's loop run to its end on queue q, arcs taken from the left.
RECURSIVE ac3_loop(_, _, _)
ac3_loop(vs, doms, q) ==
  IF q = <<>> THEN [ret |-> "True", domains |-> doms]
  ELSE LET s == ac3_iteration(vs, doms, q, 1)
       IN IF s.ret = "False" THEN [ret |-> "False", domains |-> s.domains]
          ELSE ac3_loop(vs, s.domains, s.queue)

\* ac3(variables, domains, constraints) as a function of its arguments.
ac3(vs, doms, cs) == ac3_loop(vs, doms, initial_queue(cs))

\* The call: the queue is built.
AC3Call ==
  /\ pc = "ac3_call"
  /\ queue' = initial_queue(constraints)
  /\ entry_domains' = domains
  /\ pc' = "ac3_loop"
  /\ UNCHANGED <<variables, domains, constraints, ac3_ret, schedule, stack,
                 bt_ret, bt_invoked, console, saved>>
  /\ UNCHANGED <<cpsat_vars, data, call_vars>>

\* while queue: popleft, revise, return False or re-enqueue.
AC3Revise ==
  /\ pc = "ac3_loop"
  /\ queue # <<>>
  /\ LET s == ac3_iteration(variables, domains, queue, 1)
     IN /\ domains' = s.domains
        /\ queue' = s.queue
        /\ ac3_ret' = s.ret
        /\ pc' = IF s.ret = "False" THEN "ac3_returned" ELSE "ac3_loop"
  /\ UNCHANGED <<variables, constraints, entry_domains, schedule, stack,
                 bt_ret, bt_invoked, console, saved>>
  /\ UNCHANGED <<cpsat_vars, data, call_vars>>

\* The queue is empty: return True.
AC3Exhausted ==
  /\ pc = "ac3_loop"
  /\ queue = <<>>
  /\ ac3_ret' = "True"
  /\ pc' = "ac3_returned"
  /\ UNCHANGED <<variables, domains, constraints, queue, entry_domains, schedule,
                 stack, bt_ret, bt_invoked, console, saved>>
  /\ UNCHANGED <<cpsat_vars, data, call_vars>>

\* The same loop with the arcs taken in any order.
AC3ReviseAnyOrder ==
  /\ pc = "ac3_loop"
  /\ \E k \in DOMAIN queue :
       LET s == ac3_iteration(variables, domains, queue, k)
       IN /\ domains' = s.domains
          /\ queue' = s.queue
          /\ ac3_ret' = s.ret
          /\ pc' = IF s.ret = "False" THEN "ac3_returned" ELSE "ac3_loop"
  /\ UNCHANGED <<variables, constraints, entry_domains, schedule, stack,
                 bt_ret, bt_invoked, console, saved>>
  /\ UNCHANGED <<cpsat_vars, data, call_vars>>

\* ------------------------------------------------------------ backtracking
\* select_mrv's None.
None == <<>>

\* d.get(k, [])
get(d, k) == IF k \in DOMAIN d THEN d[k] ELSE <<>>

\* Mutant of min: of several Variables with the fewest values the last is taken.
first_min_takes_last(unassigned, doms) ==
  unassigned[CHOOSE i \in DOMAIN unassigned :
               /\ \A j \in DOMAIN unassigned :
                    Len(get(doms, unassigned[i])) <= Len(get(doms, unassigned[j]))
               /\ \A j \in (i + 1)..Len(unassigned) :
                    Len(get(doms, unassigned[j])) > Len(get(doms, unassigned[i]))]

\* min(unassigned, key=...): the first element of the list with the least key.
first_min(unassigned, doms) ==
  unassigned[CHOOSE i \in DOMAIN unassigned :
               /\ \A j \in DOMAIN unassigned :
                    Len(get(doms, unassigned[i])) <= Len(get(doms, unassigned[j]))
               /\ \A j \in 1..(i - 1) :
                    Len(get(doms, unassigned[j])) > Len(get(doms, unassigned[i]))]

select_mrv(vs, sched, doms) ==
  LET unassigned == SelectSeq(vs, LAMBDA v : v \notin DOMAIN sched)
  IN IF unassigned # <<>> THEN first_min(unassigned, doms) ELSE None

\* Mutant of the search's check: a candidate value is bound unchecked.
value_fits_unchecked(val, var, sched) == TRUE

\* all(is_consistent(val, schedule[v], var, v) for v in schedule)
value_fits(val, var, sched) ==
  \A v \in DOMAIN sched : is_consistent(val, sched[v], var, v)

\* schedule[var] = val
bind(sched, var, val) ==
  [k \in (DOMAIN sched) \cup {var} |-> IF k = var THEN val ELSE sched[k]]

\* Mutant of del schedule[var]: the binding is left in the schedule.
unbind_keeps(sched, var) == sched

\* del schedule[var]
unbind(sched, var) == [k \in (DOMAIN sched) \ {var} |-> sched[k]]

\* bool(result) for a returned dict.
truthy(sched) == DOMAIN sched # {}

\* A call returns r: to the caller whose frame is on top of stk, or out of the
\* search when stk is empty.
deliver(sched, stk, r) ==
  [schedule |-> sched, stack |-> stk, bt_ret |-> r,
   pc |-> IF stk = <<>> THEN "bt_returned" ELSE "bt_resume"]

Pop(stk) == SubSeq(stk, 1, Len(stk) - 1)
Top(stk) == stk[Len(stk)]

\* Entry of a call: the base case, select_mrv, or the start of the for loop.
bt_enter(vs, doms, sched, stk) ==
  IF Cardinality(DOMAIN sched) = Len(vs) THEN deliver(sched, stk, "schedule")
  ELSE LET var == select_mrv(vs, sched, doms)
       IN IF var = None THEN deliver(sched, stk, "None")
          ELSE [schedule |-> sched,
                stack |-> Append(stk, [var |-> var, tried |-> 0]),
                bt_ret |-> "pending", pc |-> "bt_loop"]

\* The for loop takes its next value: bind it and recurse, skip it, or, when
\* the Domain is used up, return None.
bt_next_value(vs, doms, sched, stk) ==
  LET var == Top(stk).var
      n == Top(stk).tried + 1
      dom == get(doms, var)
      frame == [var |-> var, tried |-> n]
  IN IF n > Len(dom) THEN deliver(sched, Pop(stk), "None")
     ELSE IF value_fits(dom[n], var, sched)
          THEN [schedule |-> bind(sched, var, dom[n]),
                stack |-> Append(Pop(stk), frame),
                bt_ret |-> "pending", pc |-> "bt_call"]
          ELSE [schedule |-> sched, stack |-> Append(Pop(stk), frame),
                bt_ret |-> "pending", pc |-> "bt_loop"]

\* Mutant of the step after a recursive call: a failed recursion ends the
\* loop (the next value is never tried).
bt_after_recursion_gives_up(sched, stk, r) ==
  IF r = "schedule" /\ truthy(sched) THEN deliver(sched, Pop(stk), "schedule")
  ELSE deliver(unbind(sched, Top(stk).var), Pop(stk), "None")

\* The recursive call has returned r: return it when it is truthy, otherwise
\* unbind and go on with the loop.
bt_after_recursion(sched, stk, r) ==
  IF r = "schedule" /\ truthy(sched) THEN deliver(sched, Pop(stk), "schedule")
  ELSE [schedule |-> unbind(sched, Top(stk).var), stack |-> stk,
        bt_ret |-> "pending", pc |-> "bt_loop"]

BTGoto(s) ==
  /\ schedule' = s.schedule
  /\ stack' = s.stack
  /\ bt_ret' = s.bt_ret
  /\ pc' = s.pc
  /\ UNCHANGED <<variables, domains, constraints, queue, ac3_ret, entry_domains,
                 bt_invoked, console, saved>>
  /\ UNCHANGED <<cpsat_vars, data, call_vars>>

\* solve_backtracking is entered (the first call or a recursive one).
BTEnter ==
  /\ pc = "bt_call"
  /\ \E s \in {bt_enter(variables, domains, schedule, stack)} : BTGoto(s)

\* One iteration of the for loop up to the recursive call.
BTNextValue ==
  /\ pc = "bt_loop"
  /\ \E s \in {bt_next_value(variables, domains, schedule, stack)} : BTGoto(s)

\* The caller goes on after the recursive call.
BTAfterRecursion ==
  /\ pc = "bt_resume"
  /\ \E s \in {bt_after_recursion(schedule, stack, bt_ret)} : BTGoto(s)

\* ------------------------------------------------------------ output
\* The sheets save_timetable looks a binding up in.  A Day, a Time and a
\* Section are given by their rank in string order, which is all sort_values
\* reads of them.
course_name(course_id) ==
  CASE course_id = "C1" -> "Algorithms"
    [] course_id = "C2" -> "Networks"
    [] course_id = "C3" -> "Databases"
    [] OTHER -> course_id

ts_info(ts) ==
  CASE ts = "TS1" -> [Day |-> 1, Time |-> 1]
    [] ts = "TS2" -> [Day |-> 1, Time |-> 2]
    [] ts = "TS3" -> [Day |-> 2, Time |-> 1]
    [] OTHER -> [Day |-> 0, Time |-> 0]

inst_name(inst) ==
  CASE inst = "I1" -> "Dr. Adel"
    [] inst = "I2" -> "Dr. Bassem"
    [] OTHER -> inst

section_rank(section) ==
  CASE section = <<"S1">> -> 1
    [] section = <<"S2">> -> 2
    [] OTHER -> 0

\* The row save_timetable appends for one binding of the schedule.
timetable_row(var, val) ==
  [Day |-> ts_info(val[1]).Day,
   Time |-> ts_info(val[1]).Time,
   Section |-> section_of(var),
   Course |-> <<course_name(var[1]), var[2]>>,
   Instructor |-> inst_name(val[3]),
   Room |-> val[2]]

\* Lexicographic order on (Day, Time, Section).
row_before(a, b) ==
  \/ a.Day < b.Day
  \/ a.Day = b.Day /\ a.Time < b.Time
  \/ a.Day = b.Day /\ a.Time = b.Time
       /\ section_rank(a.Section) <= section_rank(b.Section)

\* df.sort_values(by=['Day', 'Time', 'Section'])
RECURSIVE sort_values(_)
sort_values(rows) ==
  IF rows = {} THEN <<>>
  ELSE LET first == CHOOSE r \in rows : \A o \in rows : row_before(r, o)
       IN <<first>> \o sort_values(rows \ {first})

\* save_timetable(schedule, data, output_path): what is printed and written.
\* "not schedule" holds for None and for the empty dict.
save_timetable(result) ==
  IF ~truthy(result)
  THEN [printed |-> "no_feasible_timetable", file |-> [written |-> FALSE, rows |-> <<>>]]
  ELSE [printed |-> "timetable_saved",
        file |-> [written |-> TRUE,
                  rows |-> sort_values({timetable_row(v, result[v]) : v \in DOMAIN result})]]

\* ------------------------------------------------------------ driver
\* any(not d for d in domains.values())
any_empty(doms) == \E k \in DOMAIN doms : doms[k] = <<>>

\* Mutant of the driver's branch on ac3's result: the search is started
\* whatever ac3 returned.
main_after_ac3_searches_anyway(ret) ==
  [printed |-> IF ret = "True" THEN <<"ac3_completed", "starting_backtracking">>
               ELSE <<"ac3_failed">>,
   invoke |-> TRUE]

\* Mutant of the driver's branch on ac3's result: a failed ac3 is reported
\* with the message of a failed search.
main_after_ac3_reports_no_timetable(ret) ==
  IF ret = "True"
  THEN [printed |-> <<"ac3_completed", "starting_backtracking">>, invoke |-> TRUE]
  ELSE [printed |-> <<"no_feasible_timetable">>, invoke |-> FALSE]

\* if ac3(...): print, print, solve_backtracking ... else: print
main_after_ac3(ret) ==
  IF ret = "True"
  THEN [printed |-> <<"ac3_completed", "starting_backtracking">>, invoke |-> TRUE]
  ELSE [printed |-> <<"ac3_failed">>, invoke |-> FALSE]

\* The check for empty Domains after setup_csp, then "Running AC-3".
MainCheckDomains ==
  /\ pc = "main"
  /\ IF any_empty(domains)
     THEN /\ console' = Append(console, "empty_domains")
          /\ pc' = "exited"
     ELSE /\ console' = Append(console, "running_ac3")
          /\ pc' = "ac3_call"
  /\ UNCHANGED <<variables, domains, constraints, queue, ac3_ret, entry_domains,
                 schedule, stack, bt_ret, bt_invoked, saved>>
  /\ UNCHANGED <<cpsat_vars, data, call_vars>>

\* ac3 has returned to the driver.
MainAfterAC3 ==
  /\ pc = "ac3_returned"
  /\ \E s \in {main_after_ac3(ac3_ret)} :
       /\ console' = console \o s.printed
       /\ bt_invoked' = s.invoke
       /\ pc' = IF s.invoke THEN "bt_call" ELSE "exited"
  /\ UNCHANGED <<variables, domains, constraints, queue, ac3_ret, entry_domains,
                 schedule, stack, bt_ret, saved>>
  /\ UNCHANGED <<cpsat_vars, data, call_vars>>

\* solve_backtracking has returned to the driver: save_timetable(result, ...).
MainSaveTimetable ==
  /\ pc = "bt_returned"
  /\ \E s \in {save_timetable(IF bt_ret = "schedule" THEN schedule ELSE None)} :
       /\ console' = Append(console, s.printed)
       /\ saved' = s.file
  /\ pc' = "exited"
  /\ UNCHANGED <<variables, domains, constraints, queue, ac3_ret, entry_domains,
                 schedule, stack, bt_ret, bt_invoked>>
  /\ UNCHANGED <<cpsat_vars, data, call_vars>>

\* ------------------------------------------------------------ loaded data
\* A SectionID is represented by its '/'-separated parts; ALL stands for the
\* string "ALL" a shared lecture is exported with.
ALL == <<"ALL">>

\* s[:n]
Take(s, n) == SubSeq(s, 1, IF Len(s) < n THEN Len(s) ELSE n)

Contains(s, x) == \E i \in DOMAIN s : s[i] = x

RECURSIVE Flatten(_)
Flatten(ss) == IF ss = <<>> THEN <<>> ELSE Head(ss) \o Flatten(Tail(ss))

\* int(...) of the year field of a SectionID.
int_of(digits) ==
  CASE digits = "1" -> 1
    [] digits = "2" -> 2
    [] OTHER -> 0

\* One row of courses.csv as load_courses stores it; the session counts are
\* the credits of the course.
load_course(id, type, credits, year, shared) ==
  [id |-> id, credits |-> credits, year |-> year, shared |-> shared,
   has_lecture |-> type \in {"Lecture", "Lecture and Lab", "Lecture and Tut"},
   has_lab |-> type \in {"Lab", "Lecture and Lab"},
   has_tutorial |-> type \in {"Tut", "Lecture and Tut"},
   lecture_sessions |-> IF type \in {"Lecture", "Lecture and Lab", "Lecture and Tut"}
                        THEN credits ELSE 0,
   lab_sessions |-> IF type \in {"Lab", "Lecture and Lab"} THEN credits ELSE 0,
   tutorial_sessions |-> IF type \in {"Tut", "Lecture and Tut"} THEN credits ELSE 0]

\* One row of sections.csv as load_sections stores it ("Year/Group" or
\* "Year/Specialization/Group").
load_section(parts, capacity) ==
  [id |-> parts, year |-> int_of(parts[1]),
   specialization |-> IF Len(parts) = 2 THEN "General" ELSE parts[2],
   group |-> parts[Len(parts)], capacity |-> capacity]

\* The PreferredSlots cells, as the parts str.split("Not on") gives,
\* stripped: an empty cell, and "Not on <Day>".
NoPreference == <<"">>
NotOn(day) == <<"", day>>

\* One row of instructors.csv as load_instructors stores it: the unavailable
\* day is the first day of the week, in the order of the loop, that the
\* lower-cased cell names after 'not on'.
load_instructor(id, preferred, qualified_courses) ==
  LET week == <<"Sunday", "Monday", "Tuesday", "Wednesday", "Thursday">>
      named == {n \in DOMAIN week : Contains(preferred, week[n])}
  IN [id |-> id, preferred |-> preferred,
      unavailable_day |->
        IF preferred # <<"">> /\ Len(preferred) >= 2 /\ named # {}
        THEN week[CHOOSE n \in named : \A o \in named : n <= o]
        ELSE "None",
      qualified_courses |-> qualified_courses]

\* loader.courses[course_id], loader.sections[section_id], ...
course_of(L, course_id) ==
  L.courses[CHOOSE i \in DOMAIN L.courses : L.courses[i].id = course_id]

section_row(L, section_id) ==
  L.sections[CHOOSE i \in DOMAIN L.sections : L.sections[i].id = section_id]

room_of(L, room_id) ==
  L.rooms[CHOOSE i \in DOMAIN L.rooms : L.rooms[i].id = room_id]

instructor_of(L, instructor_id) ==
  L.instructors[CHOOSE i \in DOMAIN L.instructors : L.instructors[i].id = instructor_id]

\* loader.timeslots[slot_id]: the id of a timeslot is its row index from 0.
timeslot_of(L, slot_id) == L.timeslots[slot_id + 1]

ids(rows) == [i \in DOMAIN rows |-> rows[i].id]

get_courses_for_year(L, year) ==
  ids(SelectSeq(L.courses, LAMBDA c : c.year = year))

get_sections_for_year(L, year) ==
  ids(SelectSeq(L.sections, LAMBDA s : s.year = year))

\* Shared courses are taken by every section of the year, the others by the
\* General sections only.
get_sections_for_course(L, course_id) ==
  IF ~\E i \in DOMAIN L.courses : L.courses[i].id = course_id THEN <<>>
  ELSE LET course == course_of(L, course_id)
       IN SelectSeq(get_sections_for_year(L, course.year),
                    LAMBDA sid : course.shared
                                 \/ section_row(L, sid).specialization = "General")

get_qualified_instructors(L, course_id) ==
  ids(SelectSeq(L.instructors, LAMBDA i : Contains(i.qualified_courses, course_id)))

get_suitable_rooms(L, room_type, min_capacity) ==
  ids(SelectSeq(L.rooms, LAMBDA r : r.type = room_type /\ r.capacity >= min_capacity))

get_timeslots_by_duration(L, duration) ==
  SelectSeq([i \in DOMAIN L.timeslots |-> i - 1],
            LAMBDA id : timeslot_of(L, id).duration = duration)

\* Mutant of is_instructor_available: the day of the slot is not looked at.
is_instructor_available_any_day(L, instructor_id, timeslot_id) ==
  \E i \in DOMAIN L.instructors : L.instructors[i].id = instructor_id

is_instructor_available(L, instructor_id, timeslot_id) ==
  IF ~\E i \in DOMAIN L.instructors : L.instructors[i].id = instructor_id THEN FALSE
  ELSE LET instructor == instructor_of(L, instructor_id)
       IN ~(instructor.unavailable_day # "None"
            /\ timeslot_of(L, timeslot_id).day = instructor.unavailable_day)

\* The rank of a string among the strings of the data in Python's string
\* order (the order str compares and sorts in).
string_rank(s) ==
  CASE s = "10:30" -> 1
    [] s = "10:45" -> 2
    [] s = "11:15" -> 3
    [] s = "12:15" -> 4
    [] s = "9:00" -> 5
    [] s = "9:45" -> 6
    [] s = "Monday" -> 7
    [] s = "Sunday" -> 8
    [] OTHER -> 0

\* The same for the Section column of the exported rows.
section_id_rank(parts) ==
  CASE parts = <<"1", "1">> -> 1
    [] parts = <<"1", "CNC", "1">> -> 2
    [] parts = ALL -> 3
    [] OTHER -> 0

\* Tuple comparison: a < b.
RECURSIVE tuple_less(_, _)
tuple_less(a, b) ==
  IF a = <<>> \/ b = <<>> THEN a = <<>> /\ b # <<>>
  ELSE IF Head(a) # Head(b) THEN Head(a) < Head(b)
  ELSE tuple_less(Tail(a), Tail(b))

\* sorted(s, key=...): a stable sort; keys[i] is the key of s[i].
RECURSIVE insert_sorted(_, _)
insert_sorted(x, sorted) ==
  IF sorted = <<>> THEN <<x>>
  ELSE IF tuple_less(x.key, Head(sorted).key) THEN <<x>> \o sorted
  ELSE <<Head(sorted)>> \o insert_sorted(x, Tail(sorted))

RECURSIVE sort_keyed(_)
sort_keyed(s) ==
  IF s = <<>> THEN <<>>
  ELSE insert_sorted(s[Len(s)], sort_keyed(SubSeq(s, 1, Len(s) - 1)))

stable_sort(s, keys) ==
  LET keyed == sort_keyed([i \in DOMAIN s |-> [item |-> s[i], key |-> keys[i]]])
  IN [i \in DOMAIN keyed |-> keyed[i].item]

\* find_consecutive_slots(duration=...): the slots of the duration sorted by
\* (day, start_time), then the neighbours on one day where the second starts
\* when the first ends.
find_consecutive_slots(L, duration) ==
  LET slots == get_timeslots_by_duration(L, duration)
      day_slots == stable_sort(slots,
                     [i \in DOMAIN slots |->
                        <<string_rank(timeslot_of(L, slots[i]).day),
                          string_rank(timeslot_of(L, slots[i]).start_time)>>])
      adjacent == [i \in 1..(Len(day_slots) - 1) |-> <<day_slots[i], day_slots[i + 1]>>]
  IN SelectSeq(adjacent,
               LAMBDA p : /\ timeslot_of(L, p[1]).day = timeslot_of(L, p[2]).day
                          /\ timeslot_of(L, p[1]).end_time = timeslot_of(L, p[2]).start_time)

\* ------------------------------------------------------------ CP-SAT variables
\* list(range(n))
range(n) == [i \in 1..n |-> i - 1]

\* Four nested for loops over the lists a, b, c, d: the tuples in loop order.
loops(a, b, c, d) ==
  [n \in 1..(Len(a) * Len(b) * Len(c) * Len(d)) |->
     << a[((n - 1) \div (Len(b) * Len(c) * Len(d))) + 1],
        b[(((n - 1) \div (Len(c) * Len(d))) % Len(b)) + 1],
        c[(((n - 1) \div Len(d)) % Len(c)) + 1],
        d[((n - 1) % Len(d)) + 1] >>]

Max(S) == CHOOSE x \in S : \A y \in S : y <= x

\* The session_info dict kept with a Boolean decision variable.  A key the
\* code leaves out is given the value the code reads for it: section_id of a
\* lecture is "ALL" (info.get('section_id', 'ALL')), sections of a tutorial or
\* lab is empty, slot_id_2 of a single slot is -1.
lecture_info(course_id, sections, t) ==
  [course_id |-> course_id, section_id |-> ALL, sections |-> sections,
   session_type |-> "LECTURE", session_num |-> t[1], slot_id |-> t[2],
   slot_id_2 |-> -1, room_id |-> t[3], instructor_id |-> t[4], is_double |-> FALSE]

section_info(course_id, section_id, session_type, t) ==
  [course_id |-> course_id, section_id |-> section_id, sections |-> <<>>,
   session_type |-> session_type, session_num |-> t[1], slot_id |-> t[2],
   slot_id_2 |-> -1, room_id |-> t[3], instructor_id |-> t[4], is_double |-> FALSE]

double_info(course_id, section_id, t) ==
  [course_id |-> course_id, section_id |-> section_id, sections |-> <<>>,
   session_type |-> "LAB", session_num |-> t[1], slot_id |-> t[2][1],
   slot_id_2 |-> t[2][2], room_id |-> t[3], instructor_id |-> t[4], is_double |-> TRUE]

\* _create_lecture_vars: the (var, session_info) pairs it appends.
\* int(max_capacity * 0.7) is the floor of 7/10 of the capacity for the
\* capacities of the data.
create_lecture_vars(L, course_id, course, sections, instructors) ==
  LET lecture_slots == get_timeslots_by_duration(L, 90)
      max_capacity == Max({section_row(L, sections[i]).capacity : i \in DOMAIN sections})
      suitable_rooms == get_suitable_rooms(L, "Lecture", (max_capacity * 7) \div 10)
      combos == SelectSeq(loops(range(course.lecture_sessions), lecture_slots,
                                Take(suitable_rooms, 75), instructors),
                          LAMBDA t : is_instructor_available(L, t[4], t[2]))
  IN IF suitable_rooms = <<>> THEN <<>>
     ELSE [i \in DOMAIN combos |-> lecture_info(course_id, sections, combos[i])]

\* _create_tutorial_vars
create_tutorial_vars(L, course_id, course, sections, instructors) ==
  LET tutorial_slots == get_timeslots_by_duration(L, 45)
      for_section(section_id) ==
        LET suitable_rooms ==
              get_suitable_rooms(L, "Lecture", section_row(L, section_id).capacity)
            combos == SelectSeq(loops(range(course.tutorial_sessions), tutorial_slots,
                                      Take(suitable_rooms, 25), instructors),
                                LAMBDA t : is_instructor_available(L, t[4], t[2]))
        IN [i \in DOMAIN combos |->
              section_info(course_id, section_id, "TUTORIAL", combos[i])]
  IN Flatten([k \in DOMAIN sections |-> for_section(sections[k])])

\* _create_lab_vars.  The loop over session_num follows the loop over the
\* sections (it is not nested in it), so it runs once, with section_id and
\* suitable_rooms as the last iteration of the section loop left them.
create_lab_vars(L, course_id, course, sections, instructors) ==
  LET lab_slots_90 == get_timeslots_by_duration(L, 90)
      consecutive_pairs == find_consecutive_slots(L, 45)
      section_id == sections[Len(sections)]
      suitable_rooms ==
        get_suitable_rooms(L, "Lab", section_row(L, section_id).capacity)
      single(session_num) ==
        LET combos == SelectSeq(loops(<<session_num>>, lab_slots_90,
                                      Take(suitable_rooms, 25), instructors),
                                LAMBDA t : is_instructor_available(L, t[4], t[2]))
        IN [i \in DOMAIN combos |-> section_info(course_id, section_id, "LAB", combos[i])]
      double(session_num) ==
        LET combos == SelectSeq(loops(<<session_num>>, consecutive_pairs,
                                      Take(suitable_rooms, 10), instructors),
                                LAMBDA t : /\ is_instructor_available(L, t[4], t[2][1])
                                           /\ is_instructor_available(L, t[4], t[2][2]))
        IN [i \in DOMAIN combos |-> double_info(course_id, section_id, combos[i])]
  IN IF consecutive_pairs = <<>> THEN <<>>
     ELSE Flatten([n \in 1..course.lab_sessions |-> single(n - 1) \o double(n - 1)])

\* The body of create_variables' loop for one course.
course_vars(L, course_id) ==
  LET course == course_of(L, course_id)
      instructors == get_qualified_instructors(L, course_id)
      sections == get_sections_for_course(L, course_id)
  IN IF instructors = <<>> THEN [vars |-> <<>>, skipped |-> <<course_id>>]
     ELSE IF sections = <<>> THEN [vars |-> <<>>, skipped |-> <<course_id>>]
     ELSE [vars |->
             (IF course.has_lecture
              THEN create_lecture_vars(L, course_id, course, sections, instructors)
              ELSE <<>>)
             \o (IF course.has_tutorial
                 THEN create_tutorial_vars(L, course_id, course, sections, instructors)
                 ELSE <<>>)
             \o (IF course.has_lab
                 THEN create_lab_vars(L, course_id, course, sections, instructors)
                 ELSE <<>>),
           skipped |-> <<>>]

\* create_variables: session_vars and the courses reported as skipped.
create_variables(L, target_year) ==
  LET courses == get_courses_for_year(L, target_year)
      per == [i \in DOMAIN courses |-> course_vars(L, courses[i])]
  IN [session_vars |-> Flatten([i \in DOMAIN per |-> per[i].vars]),
      skipped |-> Flatten([i \in DOMAIN per |-> per[i].skipped])]

\* ------------------------------------------------------------ CP-SAT constraints
\* A linear constraint of the model over the Boolean variables (given by
\* their positions in session_vars): sum(vars) == 1 or sum(vars) <= 1.
exactly_one(vs) == [sense |-> "==", vars |-> vs]
at_most_one(vs) == [sense |-> "<=", vars |-> vs]

\* The key _add_session_assignment_constraints groups the variables by.
group_key(info) ==
  IF info.session_type = "LECTURE"
  THEN <<info.course_id, ALL, info.session_type, info.session_num>>
  ELSE <<info.course_id, info.section_id, info.session_type, info.session_num>>

add_session_assignment_constraints(sv) ==
  {exactly_one({i \in DOMAIN sv : group_key(sv[i]) = k}) :
     k \in {group_key(sv[i]) : i \in DOMAIN sv}}

\* The slots a candidate blocks: slot_id, and slot_id_2 when it is double.
blocked_slots(info) ==
  IF info.is_double THEN {info.slot_id, info.slot_id_2} ELSE {info.slot_id}

add_room_conflict_constraints(sv) ==
  LET usage(room, slot) ==
        {i \in DOMAIN sv : sv[i].room_id = room /\ slot \in blocked_slots(sv[i])}
      groups == UNION {{usage(sv[i].room_id, t) : t \in blocked_slots(sv[i])} :
                         i \in DOMAIN sv}
  IN {at_most_one(g) : g \in {u \in groups : Cardinality(u) > 1}}

add_instructor_conflict_constraints(sv) ==
  LET usage(instructor, slot) ==
        {i \in DOMAIN sv : sv[i].instructor_id = instructor
                           /\ slot \in blocked_slots(sv[i])}
      groups == UNION {{usage(sv[i].instructor_id, t) : t \in blocked_slots(sv[i])} :
                         i \in DOMAIN sv}
  IN {at_most_one(g) : g \in {u \in groups : Cardinality(u) > 1}}

add_section_conflict_constraints(L, target_year, sv) ==
  LET sections == get_sections_for_year(L, target_year)
      section_affected(info, section_id) ==
        IF info.session_type = "LECTURE" THEN Contains(info.sections, section_id)
        ELSE info.section_id = section_id
      usage(section_id, slot) ==
        {i \in DOMAIN sv : section_affected(sv[i], section_id)
                           /\ slot \in blocked_slots(sv[i])}
      groups == UNION {{usage(sections[k], t) :
                          t \in UNION {blocked_slots(sv[i]) : i \in DOMAIN sv}} :
                         k \in DOMAIN sections}
  IN {at_most_one(g) : g \in {u \in groups : Cardinality(u) > 1}}

add_hard_constraints(L, target_year, sv) ==
  add_session_assignment_constraints(sv)
    \cup add_room_conflict_constraints(sv)
    \cup add_instructor_conflict_constraints(sv)
    \cup add_section_conflict_constraints(L, target_year, sv)

\* add_soft_constraints: a penalty variable, equal to the decision variable,
\* for every candidate whose slot's start time contains '9:00'; of the start
\* times of the data only "9:00" does.
add_soft_constraints(L, sv) ==
  {i \in DOMAIN sv : timeslot_of(L, sv[i].slot_id).start_time = "9:00"}

\* ------------------------------------------------------------ CP-SAT solve
\* The sets that hold one variable of every group.
RECURSIVE one_of_each(_)
one_of_each(groups) ==
  IF groups = {} THEN {{}}
  ELSE LET g == CHOOSE x \in groups : TRUE
       IN {S \cup {v} : S \in one_of_each(groups \ {g}), v \in g}

\* An assignment (the set of variables that are true) satisfies a constraint.
satisfies(A, c) ==
  IF c.sense = "==" THEN Cardinality(A \cap c.vars) = 1
  ELSE Cardinality(A \cap c.vars) <= 1

\* The assignments of n Boolean variables that satisfy every constraint.
feasible_assignments(n, model) ==
  LET groups == {c.vars : c \in {x \in model : x.sense = "=="}}
      free == (1..n) \ UNION groups
      candidates == UNION {{P \cup F : F \in SUBSET free} : P \in one_of_each(groups)}
  IN {A \in candidates : \A c \in model : satisfies(A, c)}

\* What solver.Solve(model) can answer within its time limit: an optimal
\* assignment, any feasible one, a proof that there is none, or nothing.
solve_outcomes(S) ==
  LET feasible == feasible_assignments(Len(S.session_vars), S.model)
      cost(A) == Cardinality(A \cap S.penalty_vars)
      optimal == {A \in feasible : \A B \in feasible : cost(A) <= cost(B)}
  IN {[status |-> "OPTIMAL", chosen |-> A] : A \in optimal}
       \cup {[status |-> "FEASIBLE", chosen |-> A] : A \in feasible}
       \cup (IF feasible = {} THEN {[status |-> "INFEASIBLE", chosen |-> {}]} ELSE {})
       \cup {[status |-> "UNKNOWN", chosen |-> {}]}

\* TimetableSession(...) of _extract_solution; -1 stands for the None of
\* timeslot_id_2.
TimetableSession(info) ==
  [course_id |-> info.course_id, section_id |-> info.section_id,
   session_type |-> info.session_type, session_num |-> info.session_num,
   timeslot_id |-> info.slot_id,
   timeslot_id_2 |-> IF info.is_double THEN info.slot_id + 1 ELSE -1,
   room_id |-> info.room_id,
   instructor_id |-> info.instructor_id, is_double |-> info.is_double]

\* _extract_solution: the sessions of the true variables, in session_vars order.
extract_solution(sv, chosen) ==
  LET picked == SelectSeq([i \in DOMAIN sv |-> i], LAMBDA i : i \in chosen)
  IN [k \in DOMAIN picked |-> TimetableSession(sv[picked[k]])]

\* solve(): the status, the solution and the value returned.
solve(S, outcome) ==
  IF outcome.status \in {"OPTIMAL", "FEASIBLE"}
  THEN [status |-> outcome.status,
        solution |-> extract_solution(S.session_vars, outcome.chosen),
        returned |-> TRUE, printed |-> "solution_found"]
  ELSE [status |-> outcome.status, solution |-> S.solution,
        returned |-> FALSE, printed |-> "no_feasible_solution"]

\* day_order.index(x) if x in day_order else 999
day_order(day) ==
  CASE day = "Sunday" -> 0
    [] day = "Monday" -> 1
    [] day = "Tuesday" -> 2
    [] day = "Wednesday" -> 3
    [] day = "Thursday" -> 4
    [] OTHER -> 999

\* One row of the exported sheet.
export_row(L, session) ==
  [CourseID |-> session.course_id, Section |-> session.section_id,
   Type |-> session.session_type, Session |-> session.session_num + 1,
   Day |-> timeslot_of(L, session.timeslot_id).day,
   StartTime |-> timeslot_of(L, session.timeslot_id).start_time,
   EndTime |-> timeslot_of(L, session.timeslot_id).end_time,
   Duration |-> IF session.is_double THEN 90
                ELSE timeslot_of(L, session.timeslot_id).duration,
   Room |-> session.room_id, RoomType |-> room_of(L, session.room_id).type,
   InstructorID |-> session.instructor_id]

\* export_to_csv: ValueError on an empty solution, otherwise the rows sorted
\* by Section, Day_Order and Start Time.
export_to_csv(L, solution) ==
  IF solution = <<>>
  THEN [raised |-> "ValueError", file |-> [written |-> FALSE, rows |-> <<>>]]
  ELSE LET rows == [i \in DOMAIN solution |-> export_row(L, solution[i])]
       IN [raised |-> "None",
           file |-> [written |-> TRUE,
                     rows |-> stable_sort(rows,
                                [i \in DOMAIN rows |->
                                   <<section_id_rank(rows[i].Section),
                                     day_order(rows[i].Day),
                                     string_rank(rows[i].StartTime)>>])]]

\* ------------------------------------------------------------ CP-SAT run
\* generate_timetable_for_year after loader.load_all() succeeded.
CPCreateVariables ==
  /\ pc = "cp_create"
  /\ \E r \in {create_variables(loader, solver.target_year)} :
       /\ solver' = [solver EXCEPT !.session_vars = r.session_vars]
       /\ console' = console \o <<"variables_created">>
                       \o (IF r.skipped # <<>> THEN <<"courses_skipped">> ELSE <<>>)
  /\ pc' = "cp_hard"
  /\ UNCHANGED <<engine_vars, loader, csv, data, call_vars>>

CPAddHardConstraints ==
  /\ pc = "cp_hard"
  /\ solver' = [solver EXCEPT
                  !.model = add_hard_constraints(loader, solver.target_year,
                                                 solver.session_vars)]
  /\ pc' = "cp_soft"
  /\ UNCHANGED <<engine_vars, loader, csv, console, data, call_vars>>

CPAddSoftConstraints ==
  /\ pc = "cp_soft"
  /\ solver' = [solver EXCEPT
                  !.penalty_vars = add_soft_constraints(loader, solver.session_vars)]
  /\ pc' = "cp_solve"
  /\ UNCHANGED <<engine_vars, loader, csv, console, data, call_vars>>

\* if solver.solve(): ... else: return None
CPSolve ==
  /\ pc = "cp_solve"
  /\ \E outcome \in solve_outcomes(solver) :
       \E r \in {solve(solver, outcome)} :
         /\ solver' = [solver EXCEPT !.status = r.status, !.solution = r.solution,
                                     !.result = IF r.returned THEN "pending" ELSE "None"]
         /\ console' = Append(console, r.printed)
         /\ pc' = IF r.returned THEN "cp_export" ELSE "cp_done"
  /\ UNCHANGED <<engine_vars, loader, csv, data, call_vars>>

\* return solver.export_to_csv(output_dir)
CPExport ==
  /\ pc = "cp_export"
  /\ \E r \in {export_to_csv(loader, solver.solution)} :
       /\ csv' = r.file
       /\ solver' = [solver EXCEPT !.result = IF r.raised = "None" THEN "filepath"
                                             ELSE r.raised]
       /\ console' = IF r.raised = "None" THEN Append(console, "timetable_exported")
                     ELSE console
  /\ pc' = "cp_done"
  /\ UNCHANGED <<engine_vars, loader, data, call_vars>>

\* ------------------------------------------------------------ inputs
NoFile == [written |-> FALSE, rows |-> <<>>]

\* No data loaded.
NoData ==
  [courses |-> <<>>, sections |-> <<>>, rooms |-> <<>>, timeslots |-> <<>>,
   instructors |-> <<>>]

\* No dataset: setup_csp has not been called.
NoDataset ==
  [sections |-> <<>>, courses |-> <<>>, rooms |-> <<>>, instructors |-> <<>>,
   timeslots |-> <<>>]

\* CSPTimetableSolver.__init__
new_solver(target_year) ==
  [target_year |-> target_year, session_vars |-> <<>>, model |-> {},
   penalty_vars |-> {}, status |-> "None", solution |-> <<>>, result |-> "pending"]

\* The state at a call of an engine function with arguments (vs, doms).
InputState(vs, doms, start) ==
  /\ variables = vs
  /\ domains = doms
  /\ constraints = MakeConstraints(vs)
  /\ queue = <<>>
  /\ ac3_ret = "pending"
  /\ entry_domains = doms
  /\ schedule = <<>>
  /\ stack = <<>>
  /\ bt_ret = "pending"
  /\ bt_invoked = FALSE
  /\ console = <<>>
  /\ saved = NoFile
  /\ loader = NoData
  /\ solver = new_solver(0)
  /\ csv = NoFile
  /\ data = NoDataset
  /\ call_args = <<>>
  /\ call_ret = "pending"
  /\ pc = start

\* ac3 called on any input.
\* The inputs of the engine: a variables list of VarLists (a prefix of
\* VarOrder) and Domains that hold at most budget values together.
AnyInput(start, budget) ==
  \E count \in 0..Len(VarOrder) :
    \E d1 \in DomainsFor(1, count, budget) :
      \E d2 \in DomainsFor(2, count, Left(budget, d1)) :
        \E d3 \in DomainsFor(3, count, Left(Left(budget, d1), d2)) :
          InputState(SubSeq(VarOrder, 1, count),
                     [k \in Range(SubSeq(VarOrder, 1, count)) |->
                        IF k = K1 THEN d1 ELSE IF k = K2 THEN d2 ELSE d3],
                     start)

\* A run of the driver from the return of setup_csp.
Init == AnyInput("main", MaxTotal)

Next ==
  \/ MainCheckDomains
  \/ AC3Call
  \/ AC3Revise
  \/ AC3Exhausted
  \/ MainAfterAC3
  \/ BTEnter
  \/ BTNextValue
  \/ BTAfterRecursion
  \/ MainSaveTimetable

Spec == Init /\ [][Next]_vars

\* The data sets of the CP-SAT runs.  The course CS101 varies in type, credits
\* and sharing; CS102 is a one-credit lecture of the General sections; CS201
\* belongs to another year.
MaxCredits == 2

CourseTypes == {"Lecture", "Lecture and Tut", "Lecture and Lab"}
SectionCapacities == {30, 60, 100}
LabCapacities == {20, 50}

timeslot(day, start_time, end_time, duration) ==
  [day |-> day, start_time |-> start_time, end_time |-> end_time,
   duration |-> duration]

TimeslotSheets ==
  { << timeslot("Sunday", "9:00", "10:30", 90),
       timeslot("Sunday", "10:45", "12:15", 90) >>,
    << timeslot("Sunday", "9:00", "10:30", 90),
       timeslot("Monday", "9:00", "9:45", 45),
       timeslot("Monday", "9:45", "10:30", 45) >>,
    << timeslot("Sunday", "9:00", "10:30", 90),
       timeslot("Sunday", "10:45", "12:15", 90),
       timeslot("Monday", "9:00", "9:45", 45),
       timeslot("Monday", "9:45", "10:30", 45) >> }

Dataset(type, credits, shared, cnc_capacity, lab_capacity, sheet, day_off, second) ==
  [courses |-> << load_course("CS101", type, credits, 1, shared),
                  load_course("CS102", "Lecture", 1, 1, FALSE),
                  load_course("CS201", "Lecture", 1, 2, TRUE) >>,
   sections |-> << load_section(<<"1", "1">>, 30),
                   load_section(<<"1", "CNC", "1">>, cnc_capacity),
                   load_section(<<"2", "1">>, 30) >>,
   rooms |-> << [id |-> "R1", type |-> "Lecture", capacity |-> 50],
                [id |-> "LAB1", type |-> "Lab", capacity |-> lab_capacity] >>,
   timeslots |-> sheet,
   instructors |-> << load_instructor("I1",
                                      IF day_off = "None" THEN NoPreference
                                      ELSE NotOn(day_off),
                                      <<"CS101", "CS102">>),
                      load_instructor("I2", NoPreference,
                                      IF second THEN <<"CS101">> ELSE <<>>) >>]

\* generate_timetable_for_year(1) on any data set, after load_all.
InitCPSAT ==
  \E type \in CourseTypes, credits \in 1..MaxCredits, shared \in BOOLEAN,
     cnc_capacity \in SectionCapacities, lab_capacity \in LabCapacities,
     sheet \in TimeslotSheets, day_off \in {"None", "Sunday", "Monday"},
     second \in BOOLEAN :
    /\ loader = Dataset(type, credits, shared, cnc_capacity, lab_capacity, sheet,
                        day_off, second)
    /\ solver = new_solver(1)
    /\ csv = NoFile
    /\ variables = <<>>
    /\ domains = <<>>
    /\ constraints = <<>>
    /\ queue = <<>>
    /\ ac3_ret = "pending"
    /\ entry_domains = <<>>
    /\ schedule = <<>>
    /\ stack = <<>>
    /\ bt_ret = "pending"
    /\ bt_invoked = FALSE
    /\ console = <<>>
    /\ saved = NoFile
    /\ data = NoDataset
    /\ call_args = <<>>
    /\ call_ret = "pending"
    /\ pc = "cp_create"

NextCPSAT ==
  \/ CPCreateVariables
  \/ CPAddHardConstraints
  \/ CPAddSoftConstraints
  \/ CPSolve
  \/ CPExport

SpecCPSAT == InitCPSAT /\ [][NextCPSAT]_vars

\* ac3 called on any input.
InitAC3 == AnyInput("ac3_call", MaxTotal)

NextAC3 == AC3Call \/ AC3Revise \/ AC3Exhausted

SpecAC3 == InitAC3 /\ [][NextAC3]_vars

InitAC3Small == AnyInput("ac3_call", MaxTotalSmall)

\* solve_backtracking(variables, domains, {}) called on any input.
InitBT == AnyInput("bt_call", MaxTotal)

NextBT == BTEnter \/ BTNextValue \/ BTAfterRecursion

SpecBT == InitBT /\ [][NextBT]_vars

\* The program runs on until ac3 returns: no step of the call waits for anything.
LiveAC3 == InitAC3Small /\ [][NextAC3]_vars /\ WF_vars(NextAC3)

\* ac3 called on any input, the arcs of the queue processed in any order.
NextAC3AnyOrder == AC3Call \/ AC3ReviseAnyOrder \/ AC3Exhausted

SpecAC3AnyOrder == InitAC3Small /\ [][NextAC3AnyOrder]_vars

\* ------------------------------------------------------------ functions called on their own
\* Every variable but data, call_args, call_ret and pc as it is before
\* anything has run.
NothingRun ==
  /\ variables = <<>>
  /\ domains = <<>>
  /\ constraints = <<>>
  /\ queue = <<>>
  /\ ac3_ret = "pending"
  /\ entry_domains = <<>>
  /\ schedule = <<>>
  /\ stack = <<>>
  /\ bt_ret = "pending"
  /\ bt_invoked = FALSE
  /\ console = <<>>
  /\ saved = NoFile
  /\ loader = NoData
  /\ solver = new_solver(0)
  /\ csv = NoFile

\* Keys whose section id holds '_' itself (a section id built by
\* "_".join(pieces)), and the key of a lecture of "ALL" sections.
K4 == <<"C2", "Lab", "1", "CNC", "1">>
K5 == <<"C3", "Lecture", "1", "CNC", "1">>
KALL == <<"C3", "Lecture", "ALL">>

PredicateKeys == {K1, K2, K3, K4, K5, KALL}

\* The timeslot component of a double-length candidate: the pair of the two
\* consecutive slots it occupies.  The pair (S, T) is written "S+T"; as a
\* Python tuple it is equal to itself and to no TimeSlotID.
SlotPairs == {"TS1+TS2", "TS2+TS3"}

\* The candidate values is_consistent is called with.
PredicateValues ==
  ({"TS1", "TS2", "TS3"} \cup SlotPairs) \X Range(RoomIDs) \X Range(InstructorIDs)

\* is_consistent(val1, val2, v1, v2) called on given arguments.
IsConsistentCall ==
  /\ pc = "is_consistent_call"
  /\ call_ret' = is_consistent(call_args[1], call_args[2], call_args[3], call_args[4])
  /\ pc' = "is_consistent_returned"
  /\ UNCHANGED <<engine_vars, console, cpsat_vars, data, call_args>>

InitPredicate ==
  \E val1 \in PredicateValues, val2 \in PredicateValues,
     v1 \in PredicateKeys, v2 \in PredicateKeys :
    /\ NothingRun
    /\ data = NoDataset
    /\ call_args = <<val1, val2, v1, v2>>
    /\ call_ret = "pending"
    /\ pc = "is_consistent_call"

NextPredicate == IsConsistentCall

SpecPredicate == InitPredicate /\ [][NextPredicate]_vars

\* The longest Domain of an input of select_mrv.
MaxDomainLen == 3

\* The lists of distinct keys among K1, K2, K3, in every order.
KeyLists ==
  {s \in UNION {[1..n -> {K1, K2, K3}] : n \in 0..3} :
     \A i \in DOMAIN s : \A j \in DOMAIN s : i # j => s[i] # s[j]}

\* select_mrv(variables, schedule, domains) called on given arguments.
SelectMRVCall ==
  /\ pc = "select_mrv_call"
  /\ call_ret' = select_mrv(call_args[1], call_args[2], call_args[3])
  /\ pc' = "select_mrv_returned"
  /\ UNCHANGED <<engine_vars, console, cpsat_vars, data, call_args>>

InitMRV ==
  \E vs \in KeyLists :
    \E doms \in [Range(vs) -> {SubSeq(AllValues, 1, n) : n \in 0..MaxDomainLen}] :
      \E bound \in SUBSET Range(vs) :
        /\ NothingRun
        /\ data = NoDataset
        /\ call_args = <<vs, [k \in bound |-> AllValues[1]], doms>>
        /\ call_ret = "pending"
        /\ pc = "select_mrv_call"

NextMRV == SelectMRVCall

SpecMRV == InitMRV /\ [][NextMRV]_vars

\* The most rows of a timeslots sheet find_consecutive_slots is called on.
MaxSlots == 3

\* The rows of those sheets: 45-minute slots from 9:00, 9:45 and 10:30 on two
\* days, and a 90-minute slot.
SlotRows ==
  { timeslot(day, t[1], t[2], 45) :
      day \in {"Sunday", "Monday"},
      t \in {<<"9:00", "9:45">>, <<"9:45", "10:30">>, <<"10:30", "11:15">>} }
    \cup { timeslot("Sunday", "9:00", "10:30", 90) }

\* The sheets: up to MaxSlots distinct rows in any order.
SlotRowLists ==
  {s \in UNION {[1..n -> SlotRows] : n \in 0..MaxSlots} :
     \A i \in DOMAIN s : \A j \in DOMAIN s : i # j => s[i] # s[j]}

\* loader.find_consecutive_slots(duration=...) called on loaded timeslots.
FindConsecutiveSlotsCall ==
  /\ pc = "find_consecutive_slots_call"
  /\ call_ret' = find_consecutive_slots(loader, call_args[1])
  /\ pc' = "find_consecutive_slots_returned"
  /\ UNCHANGED <<engine_vars, console, cpsat_vars, data, call_args>>

InitConsecutive ==
  \E sheet \in SlotRowLists, duration \in {45, 90} :
    /\ variables = <<>>
    /\ domains = <<>>
    /\ constraints = <<>>
    /\ queue = <<>>
    /\ ac3_ret = "pending"
    /\ entry_domains = <<>>
    /\ schedule = <<>>
    /\ stack = <<>>
    /\ bt_ret = "pending"
    /\ bt_invoked = FALSE
    /\ console = <<>>
    /\ saved = NoFile
    /\ loader = [NoData EXCEPT !.timeslots = sheet]
    /\ solver = new_solver(0)
    /\ csv = NoFile
    /\ data = NoDataset
    /\ call_args = <<duration>>
    /\ call_ret = "pending"
    /\ pc = "find_consecutive_slots_call"

NextConsecutive == FindConsecutiveSlotsCall

SpecConsecutive == InitConsecutive /\ [][NextConsecutive]_vars

\* ------------------------------------------------------------ formulation (setup_csp)
\* The dataset dict: the sheets as setup_csp reads them after its
\* normalisation.  A section row holds its SectionID (as '_'-separated
\* segments), its StudentCount and the items of its Courses cell (split at
\* ',' and stripped; none when the cell is empty).  An instructor row holds
\* the course ids of its QualifiedCourses cell and its PreferredSlots cell as
\* the parts str.split("Not on") gives, stripped.  A CourseID is a list of
\* '_'-separated segments as well.

\* f"{course_id}_{vtype}_{section_id}"
var_name(course_id, vtype, section_id) == course_id \o <<vtype>> \o section_id

\* pandas unique(): the first occurrences, in order.
RECURSIVE unique(_)
unique(s) ==
  IF s = <<>> THEN <<>>
  ELSE LET rest == unique(SubSeq(s, 1, Len(s) - 1))
       IN IF Contains(rest, s[Len(s)]) THEN rest ELSE Append(rest, s[Len(s)])

\* create_day_to_slots_map(...).get(day, [])
day_to_slots(timeslots, day) ==
  ids(SelectSeq(timeslots, LAMBDA t : t.day = day))

\* infer_courses_for_section for sheets without Year, Semester and
\* Specialization columns: every CourseID of the courses sheet.
infer_courses_for_section(D) == unique(ids(D.courses))

\* The courses_list of a section row; None when the section is skipped.
courses_list(D, section) ==
  IF section.courses # <<>> THEN section.courses
  ELSE infer_courses_for_section(D)

\* normalize_course_type with a Type column, then var_types.
var_types(course_type) ==
  IF course_type = "Lecture and Lab" THEN <<"Lecture", "Lab">> ELSE <<course_type>>

\* Type.str.contains(word, case=False) for the room types of the data,
\* "Lecture" and "Lab".
type_contains(room_type, word) == room_type = word

\* str(course_id) in str(QualifiedCourses): no course id of the data is part
\* of another.
qualified_instructors(D, course_id) ==
  SelectSeq(D.instructors, LAMBDA i : Contains(i.qualified, course_id))

\* make_domain_for_type(vtype)
make_domain_for_type(D, vtype, student_count, course_id) ==
  LET word == IF vtype = "Lecture" THEN "Lecture" ELSE "Lab"
      room_candidates ==
        SelectSeq(D.rooms, LAMBDA r : /\ type_contains(r.type, word)
                                      /\ r.capacity >= student_count)
      qualified == qualified_instructors(D, course_id)
  IN IF room_candidates = <<>> \/ qualified = <<>> THEN <<>>
     ELSE product(ids(D.timeslots), ids(room_candidates), ids(qualified))

\* The PreferredSlots of the instructor row with the id.
preferred_slots(D, inst) ==
  D.instructors[CHOOSE i \in DOMAIN D.instructors : D.instructors[i].id = inst].preferred

\* str(pref).split("Not on")[-1].strip()
forbidden_day(pref) == pref[Len(pref)]

\* The value passes the preference filter: "Not on" is in pref when split
\* gives more than one part.
passes_preference(D, value) ==
  LET pref == preferred_slots(D, value[3])
  IN ~(/\ pref # <<"">>
       /\ Len(pref) >= 2
       /\ Contains(day_to_slots(D.timeslots, forbidden_day(pref)), value[1]))

\* The Variables one course of a section row gives, with their filtered Domains.
course_entries(D, section, course_id) ==
  LET course_rows == SelectSeq(D.courses, LAMBDA c : c.id = course_id)
      types == var_types(course_rows[1].type)
  IN IF course_rows = <<>> THEN <<>>
     ELSE [n \in DOMAIN types |->
             [name |-> var_name(course_id, types[n], section.id),
              filtered |-> SelectSeq(make_domain_for_type(D, types[n],
                                                          section.student_count, course_id),
                                     LAMBDA value : passes_preference(D, value))]]

\* The loop over the section rows: what is appended, in order.
section_entries(D, section) ==
  LET courses == courses_list(D, section)
  IN Flatten([n \in DOMAIN courses |-> course_entries(D, section, courses[n])])

\* setup_csp(data): a later Domain stored under the same key replaces the
\* earlier one.
setup_csp(D) ==
  LET entries == Flatten([n \in DOMAIN D.sections |-> section_entries(D, D.sections[n])])
      names == [n \in DOMAIN entries |-> entries[n].name]
      last(k) == CHOOSE n \in DOMAIN entries :
                   entries[n].name = k /\ \A j \in DOMAIN entries : entries[j].name = k => j <= n
  IN [variables |-> names,
      domains |-> [k \in Range(names) |-> entries[last(k)].filtered],
      constraints |-> MakeConstraints(names),
      empty_domain_reasons |-> {entries[n].name : n \in {j \in DOMAIN entries :
                                                       entries[j].filtered = <<>>}}]

\* vars, domains, constraints, empty = setup_csp(dataset)
MainSetupCSP ==
  /\ pc = "setup_csp"
  /\ \E r \in {setup_csp(data)} :
       /\ variables' = r.variables
       /\ domains' = r.domains
       /\ constraints' = r.constraints
  /\ pc' = "main"
  /\ UNCHANGED <<queue, ac3_ret, entry_domains, schedule, stack, bt_ret, bt_invoked,
                 console, saved, cpsat_vars, data, call_vars>>

\* The datasets of the runs of main.py.  C1 varies in type; the first section
\* row lists one to three courses, a course twice, a course the courses sheet
\* lacks, or nothing; a second row is absent, another section, the same
\* SectionID again, or the SectionID "ALL".  The timeslots sheet holds one
\* 90-minute slot, a 90-minute slot and a 45-minute slot inside it, or two
\* 90-minute slots on different days.
CourseCells ==
  { << <<"C1">> >>, << <<"C1">>, <<"C2">> >>, << <<"C1">>, <<"C2">>, <<"C3">> >>,
    << <<"C1">>, <<"C1">> >>, << <<"C1">>, <<"C9">> >>, << <<"C9">> >>, <<>> }

SecondRows ==
  { <<>>,
    << [id |-> <<"S2">>, student_count |-> 30, courses |-> << <<"C1">> >>] >>,
    << [id |-> <<"S1">>, student_count |-> 30, courses |-> << <<"C2">> >>] >>,
    << [id |-> ALL, student_count |-> 30, courses |-> << <<"C3">> >>] >> }

SlotSheets ==
  { << [id |-> "TS1", day |-> "Sunday", start_time |-> "9:00", end_time |-> "10:30",
        duration |-> 90] >>,
    << [id |-> "TS1", day |-> "Sunday", start_time |-> "9:00", end_time |-> "10:30",
        duration |-> 90],
       [id |-> "TS2", day |-> "Sunday", start_time |-> "9:45", end_time |-> "10:30",
        duration |-> 45] >>,
    << [id |-> "TS1", day |-> "Sunday", start_time |-> "9:00", end_time |-> "10:30",
        duration |-> 90],
       [id |-> "TS3", day |-> "Tuesday", start_time |-> "9:00", end_time |-> "10:30",
        duration |-> 90] >> }

MainDataset(cells, student_count, second, type, two_rooms, pref, sheet) ==
  [sections |-> << [id |-> <<"S1">>, student_count |-> student_count,
                    courses |-> cells] >> \o second,
   courses |-> << [id |-> <<"C1">>, type |-> type],
                  [id |-> <<"C2">>, type |-> "Lecture"],
                  [id |-> <<"C3">>, type |-> "Lecture"] >>,
   rooms |-> << [id |-> "R1", type |-> "Lecture", capacity |-> 50] >>
             \o (IF two_rooms
                 THEN << [id |-> "R2", type |-> "Lecture", capacity |-> 50] >>
                 ELSE <<>>)
             \o << [id |-> "LAB1", type |-> "Lab", capacity |-> 50] >>,
   instructors |-> << [id |-> "I1", qualified |-> << <<"C1">>, <<"C2">> >>,
                       preferred |-> pref],
                      [id |-> "I2", qualified |-> << <<"C3">> >>,
                       preferred |-> NoPreference] >>,
   timeslots |-> sheet]

\* A run of main.py from the call of setup_csp.
InitMain ==
  \E cells \in CourseCells, student_count \in {30, 60}, second \in SecondRows,
     type \in {"Lecture", "Lab", "Lecture and Lab"}, two_rooms \in BOOLEAN,
     pref \in {NoPreference, NotOn("Sunday"), NotOn("Tuesday")}, sheet \in SlotSheets :
    /\ NothingRun
    /\ data = MainDataset(cells, student_count, second, type, two_rooms, pref, sheet)
    /\ call_args = <<>>
    /\ call_ret = "pending"
    /\ pc = "setup_csp"

NextMain ==
  \/ MainSetupCSP
  \/ MainCheckDomains
  \/ AC3Call
  \/ AC3Revise
  \/ AC3Exhausted
  \/ MainAfterAC3
  \/ BTEnter
  \/ BTNextValue
  \/ BTAfterRecursion
  \/ MainSaveTimetable

SpecMain == InitMain /\ [][NextMain]_vars

\* Both formulations on their own: setup_csp of a run of main.py, or
\* create_variables of generate_timetable_for_year.
InitFormulation == InitMain \/ InitCPSAT

NextFormulation == MainSetupCSP \/ CPCreateVariables

SpecFormulation == InitFormulation /\ [][NextFormulation]_vars

\* ------------------------------------------------------------ keys (setup_csp, is_consistent)
\* The CourseIDs and SectionIDs keys are built from: ids without '_', the
\* CourseID "CS_101" and the SectionID "1_CNC_1".
KeyCourseIDs == {<<"C1">>, <<"C2">>, <<"CS", "101">>}
KeySectionIDs == {<<"S1">>, <<"S2">>, <<"1", "CNC", "1">>}

\* Two keys built as setup_csp builds them, handed to is_consistent with two
\* values, as revise and solve_backtracking do.
KeyedConsistencyCall ==
  /\ pc = "keys_call"
  /\ call_ret' = is_consistent(call_args[3], call_args[4],
                               var_name(call_args[1][1], call_args[1][2], call_args[1][3]),
                               var_name(call_args[2][1], call_args[2][2], call_args[2][3]))
  /\ pc' = "keys_returned"
  /\ UNCHANGED <<engine_vars, console, cpsat_vars, data, call_args>>

InitKeys ==
  \E course1 \in KeyCourseIDs, course2 \in KeyCourseIDs,
     vtype1 \in {"Lecture", "Lab"}, vtype2 \in {"Lecture", "Lab"},
     section1 \in KeySectionIDs, section2 \in KeySectionIDs,
     val1 \in Range(AllValues), val2 \in Range(AllValues) :
    /\ NothingRun
    /\ data = NoDataset
    /\ call_args = << <<course1, vtype1, section1>>, <<course2, vtype2, section2>>,
                      val1, val2 >>
    /\ call_ret = "pending"
    /\ pc = "keys_call"

NextKeys == KeyedConsistencyCall

SpecKeys == InitKeys /\ [][NextKeys]_vars

\* ------------------------------------------------------------ problems
\* Every way to pick one value per Variable of vs from doms.
RECURSIVE Assignments(_, _)
Assignments(vs, doms) ==
  IF vs = <<>> THEN {<<>>}
  ELSE LET v == Head(vs)
       IN {[k \in (DOMAIN a) \cup {v} |-> IF k = v THEN d ELSE a[k]] :
             a \in Assignments(Tail(vs), doms), d \in Range(doms[v])}

\* is_consistent holds for every pair of distinct bound Variables of a.
PairwiseConsistent(a) ==
  \A x \in DOMAIN a : \A y \in DOMAIN a :
    x # y => is_consistent(a[x], a[y], x, y)

\* The complete pairwise-consistent assignments over doms.
Solutions(vs, doms) == {a \in Assignments(vs, doms) : PairwiseConsistent(a)}

\* Each value of doms[v1] has a consistent value in doms[v2].
ArcConsistent(doms, v1, v2) ==
  \A d1 \in Range(doms[v1]) : \E d2 \in Range(doms[v2]) : is_consistent(d1, d2, v1, v2)

InAC3 == pc \in {"ac3_loop", "ac3_returned"}

\* ------------------------------------------------------------ claims (search)
\* C1: whenever a call of solve_backtracking returns the assignment,
\* is_consistent holds for every pair of distinct bound Variables.
C1_ReturnedPairwiseConsistent ==
  bt_ret = "schedule" => PairwiseConsistent(schedule)

\* The search on three Variables returned an assignment although a value of
\* some Domain conflicts with the value bound to another Variable.
C1_Witness ==
  /\ pc = "bt_returned" /\ bt_ret = "schedule"
  /\ Len(variables) = 3
  /\ \E x \in DOMAIN schedule : \E y \in DOMAIN schedule :
       x # y /\ \E d \in Range(domains[x]) : ~is_consistent(d, schedule[y], x, y)

\* C2: on a non-empty list of distinct Variables the search returns None
\* exactly when no complete pairwise-consistent assignment over the given
\* domains exists, and otherwise returns such an assignment.
C2_Complete ==
  (pc = "bt_returned" /\ variables # <<>>) =>
     /\ bt_ret = "None" <=> Solutions(variables, domains) = {}
     /\ bt_ret = "schedule" <=> schedule \in Solutions(variables, domains)

\* The search returned a solution that does not bind the first value of the
\* first Variable chosen: it came back from a failed branch.
C2_Witness ==
  /\ pc = "bt_returned" /\ bt_ret = "schedule"
  /\ Len(variables) >= 2
  /\ schedule[select_mrv(variables, <<>>, domains)]
       # Head(domains[select_mrv(variables, <<>>, domains)])

\* ------------------------------------------------------------ claims (completeness)
\* The session types a course requires, with the number of sessions of each.
required_types(course) ==
  (IF course.has_lecture THEN {"LECTURE"} ELSE {})
    \cup (IF course.has_tutorial THEN {"TUTORIAL"} ELSE {})
    \cup (IF course.has_lab THEN {"LAB"} ELSE {})

\* The required sessions of a year: (course, section or ALL, type, number)
\* for every course of the year, every session type it requires, every
\* section taking it (ALL of them together for a lecture) and every one of
\* its credits.
RequiredSessions(L, year) ==
  UNION {
    LET course == course_of(L, c)
        sections == get_sections_for_course(L, c)
    IN UNION {
         {<<c, sec, ty, n>> :
            sec \in (IF ty = "LECTURE"
                     THEN (IF sections = <<>> THEN {} ELSE {ALL})
                     ELSE Range(sections)),
            n \in 0..(course.credits - 1)} :
         ty \in required_types(course)} :
    c \in Range(get_courses_for_year(L, year))}

\* The sessions of the solution that bind the required session r.
BindingsOf(r) ==
  {i \in DOMAIN solver.solution :
     <<solver.solution[i].course_id, solver.solution[i].section_id,
       solver.solution[i].session_type, solver.solution[i].session_num>> = r}

\* C10: every reported schedule is complete: an exported timetable holds
\* exactly one binding for every required session of the year; a required
\* session without a candidate is never silently left out of it.
C10_ReportedScheduleComplete ==
  csv.written =>
    \A r \in RequiredSessions(loader, solver.target_year) :
      Cardinality(BindingsOf(r)) = 1

\* A timetable was exported that holds the lecture of CS102 and nothing else,
\* although CS101 is a lecture course taken by both sections of the year: no
\* lecture room seats 70% of its largest section, and no candidate was
\* created for it.
C10_Witness ==
  /\ pc = "cp_done" /\ csv.written
  /\ solver.status = "OPTIMAL"
  /\ course_of(loader, "CS101").has_lecture
  /\ Len(get_sections_for_course(loader, "CS101")) = 2
  /\ get_qualified_instructors(loader, "CS101") # <<>>
  /\ console = <<"variables_created", "solution_found", "timetable_exported">>
  /\ \A i \in DOMAIN csv.rows : csv.rows[i].CourseID = "CS102"

\* ------------------------------------------------------------ claims (driver)
InSearch == pc \in {"bt_call", "bt_loop", "bt_resume", "bt_returned"}

\* C9: once ac3 has returned False, the run never starts the backtracking
\* search, binds nothing, and neither reports nor saves a timetable.
C9_NoSearchAfterAC3False ==
  ac3_ret = "False" =>
     /\ ~bt_invoked
     /\ ~InSearch
     /\ schedule = <<>> /\ stack = <<>> /\ bt_ret = "pending"
     /\ ~saved.written
     /\ "timetable_saved" \notin Range(console)

\* A run on three Variables with no empty Domain ended after ac3 returned
\* False.
C9_Witness ==
  /\ pc = "exited" /\ ac3_ret = "False"
  /\ Len(variables) = 3
  /\ console = <<"running_ac3", "ac3_failed">>

\* ------------------------------------------------------------ claims (AC-3)
\* C3: when ac3 has returned False, no assignment that picks one value per
\* Variable from the domains as they were before the call is pairwise
\* consistent.
C3_FalseMeansUnsatisfiable ==
  (pc = "ac3_returned" /\ ac3_ret = "False") => Solutions(variables, entry_domains) = {}

\* ac3 returned False on three Variables none of whose Domains was empty and
\* one of which had several values.
C3_Witness ==
  /\ pc = "ac3_returned" /\ ac3_ret = "False"
  /\ Len(variables) = 3
  /\ \A k \in DOMAIN entry_domains : entry_domains[k] # <<>>
  /\ \E k \in DOMAIN entry_domains : Len(entry_domains[k]) >= 2

\* C4: every value an iteration of ac3 removes is removed from the Domain of
\* the first Variable of the arc taken from the queue and had no consistent
\* value in the Domain of the arc's other Variable at that moment; and no
\* value of a complete pairwise-consistent assignment over the original
\* domains is ever missing from the current domains.
C4_PruningSound ==
  /\ [][\A k \in DOMAIN domains :
          \A d \in Range(domains[k]) \ Range(domains'[k]) :
            /\ pc = "ac3_loop" /\ queue # <<>>
            /\ Head(queue)[1] = k
            /\ \A d2 \in Range(domains[Head(queue)[2]]) :
                 ~is_consistent(d, d2, k, Head(queue)[2])]_vars
  /\ [](InAC3 => \A a \in Solutions(variables, entry_domains) :
                   \A k \in DOMAIN a : a[k] \in Range(domains[k]))

\* A value has been removed while the problem has a solution.
C4_Witness ==
  /\ pc = "ac3_loop"
  /\ Solutions(variables, entry_domains) # {}
  /\ \E k \in DOMAIN domains : Len(domains[k]) < Len(entry_domains[k])

\* C5: after ac3 returned True every directed arc of distinct Variables is
\* arc-consistent, and a second ac3 call on the resulting domains returns True
\* and removes no value.
C5_FixedPoint ==
  (pc = "ac3_returned" /\ ac3_ret = "True") =>
     /\ \A x \in Range(variables) : \A y \in Range(variables) :
          x # y => ArcConsistent(domains, x, y)
     /\ ac3(variables, domains, constraints) = [ret |-> "True", domains |-> domains]

\* ac3 returned True after pruning the Domains of two of three Variables.
C5_Witness ==
  /\ pc = "ac3_returned" /\ ac3_ret = "True"
  /\ Len(variables) = 3
  /\ Cardinality({k \in DOMAIN domains : Len(domains[k]) < Len(entry_domains[k])}) >= 2

\* C6: at every step of an ac3 call, every Domain is a subsequence of the
\* Domain before the call: nothing added, nothing reordered, never longer.
C6_DomainsShrinkMonotonically ==
  InAC3 => \A k \in DOMAIN domains :
             /\ IsSubsequence(domains[k], entry_domains[k])
             /\ Len(domains[k]) <= Len(entry_domains[k])

\* A Domain was pruned and still holds several values, in their old order.
C6_Witness ==
  /\ pc = "ac3_returned"
  /\ \E k \in DOMAIN domains :
       Len(domains[k]) >= 2 /\ Len(domains[k]) < Len(entry_domains[k])

\* C7: whatever the order in which the arcs of the queue are processed, ac3
\* ends with the result of the first-in-first-out run on the same variables
\* and domains, and when that result is True with the same final domains.
C7_Confluent ==
  pc = "ac3_returned" =>
     LET fifo == ac3(variables, entry_domains, constraints)
     IN /\ ac3_ret = fifo.ret
        /\ fifo.ret = "True" => domains = fifo.domains

\* An out-of-order run on three Variables ended True after pruning.
C7_Witness ==
  /\ pc = "ac3_returned" /\ ac3_ret = "True"
  /\ Len(variables) = 3
  /\ domains # entry_domains

\* C8: every ac3 call returns: the queue runs empty or a Domain runs empty.
C8_Terminates == <>(pc = "ac3_returned")

\* ac3 has returned after revisions that shrank a Domain of three Variables
\* without emptying it, so that arcs were re-enqueued.
C8_Witness ==
  /\ pc = "ac3_returned"
  /\ Len(variables) = 3
  /\ \E k \in DOMAIN domains : domains[k] # <<>> /\ Len(domains[k]) < Len(entry_domains[k])

\* ------------------------------------------------------------ claims (consistency predicate)
\* The section a key of PredicateKeys stands for.
section_name(v) ==
  CASE v \in {K1, K2} -> "S1"
    [] v = K3 -> "S2"
    [] v \in {K4, K5} -> "1_CNC_1"
    [] v = KALL -> "ALL"

\* The timeslots a timeslot component occupies.
occupied(t) ==
  CASE t = "TS1+TS2" -> {"TS1", "TS2"}
    [] t = "TS2+TS3" -> {"TS2", "TS3"}
    [] OTHER -> {t}

\* C13: is_consistent returns false exactly when the two values have the same
\* timeslot and, in addition, the same room, or the same instructor, or the
\* two Variables resolve to the same section; otherwise it returns true.
C13_IsConsistentExact ==
  (pc = "is_consistent_returned"
     /\ call_args[1][1] \notin SlotPairs /\ call_args[2][1] \notin SlotPairs) =>
    LET val1 == call_args[1]
        val2 == call_args[2]
    IN call_ret = ~(/\ val1[1] = val2[1]
                    /\ \/ val1[2] = val2[2]
                       \/ val1[3] = val2[3]
                       \/ section_name(call_args[3]) = section_name(call_args[4]))

\* is_consistent returned false for two values that share the timeslot and
\* the instructor only, of Variables of different sections.
C13_Witness ==
  /\ pc = "is_consistent_returned" /\ call_ret = FALSE
  /\ call_args[1][1] = "TS2" /\ call_args[2][1] = "TS2"
  /\ call_args[1][2] # call_args[2][2]
  /\ call_args[1][3] = call_args[2][3]
  /\ call_args[3] = K4 /\ call_args[4] = K3

\* C15: a double-length session occupying slots (S, S+1) conflicts with any
\* other session that occupies S or S+1 with the same room, the same
\* instructor or the same section: is_consistent returns false for every such
\* pair, for either occupied slot and in either argument order.
C15_DoubleSlotConflicts ==
  pc = "is_consistent_returned" =>
    LET val1 == call_args[1]
        val2 == call_args[2]
    IN (/\ val1[1] \in SlotPairs \/ val2[1] \in SlotPairs
        /\ occupied(val1[1]) \cap occupied(val2[1]) # {}
        /\ \/ val1[2] = val2[2]
           \/ val1[3] = val2[3]
           \/ section_name(call_args[3]) = section_name(call_args[4]))
       => call_ret = FALSE

\* is_consistent returned true for a double-length session in slots TS1 and
\* TS2 and a session in slot TS2 of the same section in the same room with the
\* same instructor.
C15_Witness ==
  /\ pc = "is_consistent_returned" /\ call_ret = TRUE
  /\ call_args[1] = <<"TS1+TS2", "R1", "I1">>
  /\ call_args[2] = <<"TS2", "R1", "I1">>
  /\ call_args[3] = K1 /\ call_args[4] = K2

\* ------------------------------------------------------------ claims (MRV)
\* C16: select_mrv returns, among the Variables not yet in the schedule, one
\* whose Domain has the fewest values, and among several of those the one
\* that comes first in the variables list; it returns None only when no
\* Variable is unassigned.
C16_SelectMRV ==
  pc = "select_mrv_returned" =>
    LET vs == call_args[1]
        sched == call_args[2]
        doms == call_args[3]
        unassigned == {i \in DOMAIN vs : vs[i] \notin DOMAIN sched}
    IN /\ call_ret = None <=> unassigned = {}
       /\ unassigned # {} =>
            \E i \in unassigned :
              /\ call_ret = vs[i]
              /\ \A j \in unassigned :
                   /\ Len(doms[vs[j]]) >= Len(doms[vs[i]])
                   /\ j < i => Len(doms[vs[j]]) > Len(doms[vs[i]])

\* select_mrv returned the second Variable of the list, which has as few
\* values as the third and fewer than the first, all three unassigned.
C16_Witness ==
  /\ pc = "select_mrv_returned"
  /\ Len(call_args[1]) = 3 /\ DOMAIN call_args[2] = {}
  /\ call_ret = call_args[1][2]
  /\ Len(call_args[3][call_args[1][2]]) = Len(call_args[3][call_args[1][3]])
  /\ Len(call_args[3][call_args[1][1]]) > Len(call_args[3][call_args[1][2]])

\* ------------------------------------------------------------ claims (outcomes)
\* The Variables of the list are pairwise distinct.
DistinctKeys(vs) == \A i \in DOMAIN vs : \A j \in DOMAIN vs : i # j => vs[i] # vs[j]

\* C11: the three negative outcomes of a run are surfaced as distinct
\* results: a run ends with the message of an empty Domain exactly when a
\* Domain is empty after formulation, with the message of a failed AC-3
\* exactly when ac3 returned False, and with the message of a failed search
\* when the search returned no assignment, which happens only after ac3
\* returned True on Domains none of which was empty; no run prints two of the
\* terminal messages.
C11_DistinctNegativeOutcomes ==
  pc = "exited" =>
    LET formulated == setup_csp(data)
        outcome == console[Len(console)]
    IN /\ any_empty(formulated.domains) <=> outcome = "empty_domains"
       /\ ac3_ret = "False" <=> outcome = "ac3_failed"
       /\ (bt_invoked /\ bt_ret = "None") => outcome = "no_feasible_timetable"
       /\ outcome = "no_feasible_timetable" =>
            bt_invoked /\ ac3_ret = "True" /\ ~any_empty(formulated.domains)
       /\ Cardinality(Range(console) \cap {"empty_domains", "ac3_failed",
                                           "no_feasible_timetable",
                                           "timetable_saved"}) = 1

\* A run on three distinct Variables ended with the message of a failed
\* search: ac3 had returned True and the search returned None.
C11_Witness ==
  /\ pc = "exited" /\ ac3_ret = "True" /\ bt_ret = "None"
  /\ Len(variables) = 3 /\ DistinctKeys(variables)
  /\ console[Len(console)] = "no_feasible_timetable"

\* ------------------------------------------------------------ claims (formulation)
\* C18: the Variables setup_csp produces have pairwise distinct keys for
\* every input, also when a section lists a course twice or two section rows
\* yield the same section id, so that the constraints never hold a pair (v, v).
C18_DistinctKeys ==
  pc # "setup_csp" =>
    /\ DistinctKeys(variables)
    /\ \A n \in DOMAIN constraints : constraints[n][1] # constraints[n][2]

\* setup_csp returned the key C1_Lecture_S1 twice, and the constraint pairing
\* it with itself, for the one section row S1 whose Courses cell is "C1, C1".
C18_Witness ==
  /\ pc = "main"
  /\ Len(data.sections) = 1
  /\ data.sections[1].courses = << <<"C1">>, <<"C1">> >>
  /\ variables = <<K1, K1>>
  /\ constraints = << <<K1, K1>> >>

\* C14: a shared lecture, a Variable whose scope is ALL sections, intersects
\* every section it covers: in no reported schedule does it occupy the
\* timeslot of another session of a section attending it.
C14_SharedLectureBlocksSections ==
  (saved.written /\ KALL \in DOMAIN schedule) =>
    \A v \in DOMAIN schedule : v # KALL => schedule[v][1] # schedule[KALL][1]

\* A timetable was saved in which the lecture C3 of ALL sections and the
\* lecture C1 of section S1 are both in timeslot TS1.
C14_Witness ==
  /\ pc = "exited" /\ saved.written
  /\ K1 \in DOMAIN schedule /\ KALL \in DOMAIN schedule
  /\ schedule[K1][1] = "TS1" /\ schedule[KALL][1] = "TS1"
  /\ \E i \in DOMAIN saved.rows : \E j \in DOMAIN saved.rows :
       /\ saved.rows[i].Section = <<"S1">> /\ saved.rows[j].Section = ALL
       /\ saved.rows[i].Day = saved.rows[j].Day
       /\ saved.rows[i].Time = saved.rows[j].Time

\* The days a PreferredSlots cell declares unavailable.
DeclaredDays(preferred) == {preferred[n] : n \in 2..Len(preferred)}

\* The day of the timeslot row with the id in the timeslots sheet of setup_csp.
DayOf(D, ts) ==
  D.timeslots[CHOOSE n \in DOMAIN D.timeslots : D.timeslots[n].id = ts].day

NeededCapacity(L, info) ==
  IF info.session_type = "LECTURE"
  THEN Max({section_row(L, info.sections[k]).capacity : k \in DOMAIN info.sections})
  ELSE section_row(L, info.section_id).capacity

\* C20: every candidate value uses a room of the type matching the session
\* (a Lecture room for lectures and tutorials, a Lab room for labs) whose
\* capacity is at least the capacity of the section, or of the largest
\* attending section for a shared lecture.
C20_RoomsFit ==
  \A n \in DOMAIN solver.session_vars :
    LET info == solver.session_vars[n]
        room == room_of(loader, info.room_id)
    IN /\ room.type = (IF info.session_type = "LAB" THEN "Lab" ELSE "Lecture")
       /\ room.capacity >= NeededCapacity(loader, info)

\* Lecture candidates of the shared course CS101 were created in room R1 of
\* 50 seats although section 1/CNC/1, which attends the lecture, has 60
\* students.
C20_Witness ==
  /\ pc = "cp_hard"
  /\ section_row(loader, <<"1", "CNC", "1">>).capacity = 60
  /\ \E n \in DOMAIN solver.session_vars :
       /\ solver.session_vars[n].course_id = "CS101"
       /\ solver.session_vars[n].session_type = "LECTURE"
       /\ Contains(solver.session_vars[n].sections, <<"1", "CNC", "1">>)
       /\ solver.session_vars[n].room_id = "R1"
       /\ room_of(loader, "R1").capacity = 50

\* ------------------------------------------------------------ claims (timeout)
\* What generate_timetable_for_year returns and prints when solve() answers
\* with the status.
ReportOf(status) ==
  LET r == solve(solver, [status |-> status, chosen |-> {}])
  IN <<r.returned, r.printed>>

\* C12: a search that stopped because its time bound expired is reported as
\* a timeout, distinct from proven infeasibility: the run does not end with
\* the result value and message it gives for a proof of infeasibility.
C12_TimeoutReportedDistinctly ==
  (pc = "cp_done" /\ solver.status = "UNKNOWN") =>
    <<solver.result # "None", console[Len(console)]>> # ReportOf("INFEASIBLE")

\* The solver ran out of time on a model that has a feasible assignment, and
\* the run ended with the result None and the message of a failed search.
C12_Witness ==
  /\ pc = "cp_done" /\ solver.status = "UNKNOWN"
  /\ feasible_assignments(Len(solver.session_vars), solver.model) # {}
  /\ solver.session_vars # <<>>
  /\ solver.result = "None"
  /\ console[Len(console)] = "no_feasible_solution"
  /\ ~csv.written

\* ------------------------------------------------------------ claims (symmetry)
\* C30: is_consistent is symmetric: is_consistent(a, b, va, vb) equals
\* is_consistent(b, a, vb, va) for all values a, b and Variable keys va, vb.
C30_IsConsistentSymmetric ==
  pc = "is_consistent_returned" =>
    call_ret = is_consistent(call_args[2], call_args[1], call_args[4], call_args[3])

\* is_consistent returned false on the section rule alone for the lab and the
\* lecture of one section, given in this order, with different rooms and
\* instructors in the same timeslot.
C30_Witness ==
  /\ pc = "is_consistent_returned" /\ call_ret = FALSE
  /\ call_args[3] = K4 /\ call_args[4] = K5
  /\ call_args[1] = <<"TS1", "R1", "I1">>
  /\ call_args[2] = <<"TS1", "R2", "I2">>

\* ------------------------------------------------------------ claims (base case)
\* C28: when every Variable is already bound on entry, also when there is no
\* Variable and the schedule is empty, solve_backtracking returns the current
\* assignment, and the run treats that result as solved: it saves the
\* timetable and does not report that no feasible timetable was found.
C28_AllBoundIsSolved ==
  /\ (pc = "bt_returned" /\ variables = <<>>) => (bt_ret = "schedule" /\ schedule = <<>>)
  /\ (pc = "exited" /\ bt_invoked /\ bt_ret = "schedule") =>
       /\ console[Len(console)] = "timetable_saved"
       /\ saved.written

\* The one section row lists only a course the courses sheet lacks: setup_csp
\* gave no Variable, ac3 returned True, solve_backtracking returned the empty
\* schedule, and the run ended with the message of a failed search and no file.
C28_Witness ==
  /\ pc = "exited"
  /\ Len(data.sections) = 1 /\ data.sections[1].courses = << <<"C9">> >>
  /\ variables = <<>>
  /\ ac3_ret = "True" /\ bt_invoked /\ bt_ret = "schedule" /\ schedule = <<>>
  /\ console[Len(console)] = "no_feasible_timetable"
  /\ ~saved.written

\* ------------------------------------------------------------ claims (frame)
\* The bindings of the active calls: each call whose frame is on the stack
\* has bound its Variable to the value its for loop is at.
FrameBindings(stk, doms) ==
  [k \in {stk[i].var : i \in DOMAIN stk} |->
     LET frame == stk[CHOOSE i \in DOMAIN stk : stk[i].var = k]
     IN get(doms, k)[frame.tried]]

\* C25: backtracking restores the partial assignment: a call of
\* solve_backtracking is entered with the bindings of its callers, and
\* whenever it returns None the schedule holds exactly those bindings again;
\* the domains are never changed by the search.
C25_BacktrackingRestores ==
  /\ pc = "bt_call" => schedule = FrameBindings(stack, domains)
  /\ (pc \in {"bt_resume", "bt_returned"} /\ bt_ret = "None") =>
       schedule = FrameBindings(stack, domains)
  /\ InSearch => domains = entry_domains

\* A recursive call on three Variables returned None to its caller after it
\* had bound a value that fits the caller's binding, recursed, and removed it.
C25_Witness ==
  /\ pc = "bt_resume" /\ bt_ret = "None"
  /\ Len(variables) = 3 /\ Len(stack) = 1
  /\ Cardinality(DOMAIN schedule) = 1
  /\ \E d \in Range(domains[select_mrv(variables, schedule, domains)]) :
       value_fits(d, select_mrv(variables, schedule, domains), schedule)

\* ------------------------------------------------------------ claims (propagation)
\* Two distinct Variables of the list have non-empty Domains in doms all of
\* whose values lie on one common timeslot and use the same room.
OneSlotOneRoom(vs, doms) ==
  \E v1 \in Range(vs) : \E v2 \in Range(vs) :
    /\ v1 # v2
    /\ doms[v1] # <<>> /\ doms[v2] # <<>>
    /\ \E t \in Range(TimeSlotIDs) : \E r \in Range(RoomIDs) :
         \A value \in Range(doms[v1]) \cup Range(doms[v2]) :
           value[1] = t /\ value[2] = r

\* C24: when two Variables have all their candidate values on one common
\* timeslot in the same room, ac3 empties a Domain and returns False, and
\* backtracking is not invoked afterwards: ac3 never returns True on such
\* domains, and the run ends without a search.
C24_SameSlotSameRoomFails ==
  (pc \in {"ac3_returned", "exited"} /\ OneSlotOneRoom(variables, entry_domains)) =>
    /\ ac3_ret # "pending" => (ac3_ret = "False" /\ any_empty(domains))
    /\ ~bt_invoked /\ bt_ret = "pending" /\ schedule = <<>>

\* ac3 returned False, and the run ended without a search, on two Variables
\* of different sections whose Domains each held two values, all four in
\* timeslot TS1 and room R1.
C24_Witness ==
  /\ pc = "exited" /\ ac3_ret = "False" /\ ~bt_invoked
  /\ variables = <<K1, K2, K3>>
  /\ \A value \in Range(entry_domains[K1]) \cup Range(entry_domains[K3]) :
       value[1] = "TS1" /\ value[2] = "R1"
  /\ Len(entry_domains[K1]) = 2 /\ Len(entry_domains[K3]) = 2
  /\ entry_domains[K2] # <<>>

\* ------------------------------------------------------------ claims (diagnostics)
\* C22: setup_csp returns normally when a Domain is empty, and the
\* diagnostics it returns hold an entry for exactly those Variables whose
\* Domain is empty after filtering.
C22_DiagnosticsExact ==
  pc = "main" =>
    setup_csp(data).empty_domain_reasons = {k \in DOMAIN domains : domains[k] = <<>>}

\* setup_csp returned a non-empty Domain for C2_Lecture_S1 together with a
\* diagnostic for it: two section rows have the SectionID S1, the first with
\* 60 students, whom no room seats, the second with 30.
C22_Witness ==
  /\ pc = "main"
  /\ Len(data.sections) = 2
  /\ data.sections[1].id = <<"S1">> /\ data.sections[2].id = <<"S1">>
  /\ data.sections[1].student_count = 60 /\ data.sections[2].student_count = 30
  /\ K2 \in setup_csp(data).empty_domain_reasons
  /\ domains[K2] # <<>>

\* ------------------------------------------------------------ claims (durations)
\* The row of the timeslots sheet of setup_csp with the id.
SlotRow(D, ts) == D.timeslots[CHOOSE n \in DOMAIN D.timeslots : D.timeslots[n].id = ts]

\* C21: every candidate value uses a timeslot whose duration fits the session
\* type: a 90-minute slot for a lecture or lab, a 45-minute slot for a
\* tutorial, or a pair of consecutive 45-minute slots for a lab; no Domain
\* holds a timeslot of another duration.
C21_DurationsFit ==
  /\ \A k \in DOMAIN domains : \A value \in Range(domains[k]) :
       SlotRow(data, value[1]).duration = (IF k[2] = "Tutorial" THEN 45 ELSE 90)
  /\ \A n \in DOMAIN solver.session_vars :
       LET info == solver.session_vars[n]
           slot == timeslot_of(loader, info.slot_id)
       IN IF info.is_double
          THEN /\ info.session_type = "LAB"
               /\ slot.duration = 45
               /\ timeslot_of(loader, info.slot_id_2).duration = 45
               /\ timeslot_of(loader, info.slot_id_2).day = slot.day
               /\ timeslot_of(loader, info.slot_id_2).start_time = slot.end_time
          ELSE slot.duration = (IF info.session_type = "TUTORIAL" THEN 45 ELSE 90)

\* setup_csp returned, for the lecture C1 of section S1, a Domain with values
\* in timeslot TS2, a slot of 45 minutes.
C21_Witness ==
  /\ pc = "main"
  /\ variables = <<K1>>
  /\ \E n \in DOMAIN data.timeslots :
       data.timeslots[n].id = "TS2" /\ data.timeslots[n].duration = 45
  /\ \E value \in Range(domains[K1]) : value[1] = "TS2"

\* ------------------------------------------------------------ claims (clock time)
\* Minutes after midnight of the times of the data.
clock(time) ==
  CASE time = "9:00" -> 540
    [] time = "9:45" -> 585
    [] time = "10:30" -> 630
    [] time = "10:45" -> 645
    [] time = "11:15" -> 675
    [] time = "12:15" -> 735

\* Two timeslot rows are on the same day and overlap in time.
Overlap(a, b) ==
  /\ a.day = b.day
  /\ clock(a.start_time) < clock(b.end_time)
  /\ clock(b.start_time) < clock(a.end_time)

\* C27: no reported schedule double-books a resource in clock time: two
\* sessions whose timeslots are on the same day and overlap in time, also
\* when the timeslot ids differ, share neither the room nor the instructor
\* nor the section.
C27_NoClockDoubleBooking ==
  saved.written =>
    \A v1 \in DOMAIN schedule : \A v2 \in DOMAIN schedule :
      (v1 # v2 /\ Overlap(SlotRow(data, schedule[v1][1]), SlotRow(data, schedule[v2][1]))) =>
        /\ schedule[v1][2] # schedule[v2][2]
        /\ schedule[v1][3] # schedule[v2][3]
        /\ section_of(v1) # section_of(v2)

\* A timetable was saved with the lecture C1 of section S1 in TS1 (Sunday
\* 9:00-10:30) and the lecture C2 of the same section in TS2 (Sunday
\* 9:45-10:30), both in room R1 with instructor I1.
C27_Witness ==
  /\ pc = "exited" /\ saved.written
  /\ DOMAIN schedule = {K1, K2}
  /\ schedule[K1] = <<"TS1", "R1", "I1">>
  /\ schedule[K2] = <<"TS2", "R1", "I1">>
  /\ Overlap(SlotRow(data, "TS1"), SlotRow(data, "TS2"))
  /\ Len(saved.rows) = 2

\* ------------------------------------------------------------ claims (consecutive slots)
\* The pairs of slot ids (s1, s2) of the duration on one day where s2 starts
\* at the time s1 ends.
ConsecutivePairs(L, duration) ==
  {<<i - 1, j - 1>> : <<i, j>> \in
     {p \in (DOMAIN L.timeslots) \X (DOMAIN L.timeslots) :
        /\ L.timeslots[p[1]].duration = duration
        /\ L.timeslots[p[2]].duration = duration
        /\ L.timeslots[p[1]].day = L.timeslots[p[2]].day
        /\ L.timeslots[p[2]].start_time = L.timeslots[p[1]].end_time}}

\* C29: find_consecutive_slots(duration) returns exactly the pairs (s1, s2)
\* of timeslots of that duration that are on the same day and where s2 starts
\* at the time s1 ends: every returned pair is one, and every such pair of
\* the loaded timeslots is returned, whatever the start times are.
C29_ConsecutivePairsExact ==
  pc = "find_consecutive_slots_returned" =>
    /\ Range(call_ret) \subseteq ConsecutivePairs(loader, call_args[1])
    /\ ConsecutivePairs(loader, call_args[1]) \subseteq Range(call_ret)

\* find_consecutive_slots(duration=45) returned no pair for the sheet of the
\* 45-minute slots Sunday 9:45-10:30 and Sunday 10:30-11:15.
C29_Witness ==
  /\ pc = "find_consecutive_slots_returned"
  /\ call_args = <<45>>
  /\ loader.timeslots = << timeslot("Sunday", "9:45", "10:30", 45),
                           timeslot("Sunday", "10:30", "11:15", 45) >>
  /\ call_ret = <<>>

\* ------------------------------------------------------------ claims (variables)
\* The exactly-once constraints of the model over the candidates of the
\* required session r.
GroupsOf(r) ==
  {c \in solver.model :
     c.sense = "==" /\ \E i \in c.vars : group_key(solver.session_vars[i]) = r}

\* C23: for every course, every section that takes it and every session type
\* the course requires, the formulation holds one exactly-once session group
\* per required session occurrence; lab and tutorial sessions have their own
\* groups for each section, not only for one of the sections.
C23_OneGroupPerSession ==
  pc \in {"cp_soft", "cp_solve", "cp_export", "cp_done"} =>
    \A r \in RequiredSessions(loader, solver.target_year) : Cardinality(GroupsOf(r)) = 1

\* CS101 is a shared course with a lab, taken by sections 1/1 and 1/CNC/1 of
\* 30 students each, with a lab room of 50 seats, consecutive 45-minute slots
\* and a qualified instructor without a day off: the model holds a lab group
\* for section 1/CNC/1 and none for section 1/1.
C23_Witness ==
  /\ pc = "cp_soft"
  /\ course_of(loader, "CS101").has_lab
  /\ get_sections_for_course(loader, "CS101") = << <<"1", "1">>, <<"1", "CNC", "1">> >>
  /\ section_row(loader, <<"1", "CNC", "1">>).capacity = 30
  /\ room_of(loader, "LAB1").capacity = 50
  /\ find_consecutive_slots(loader, 45) # <<>>
  /\ instructor_of(loader, "I1").unavailable_day = "None"
  /\ GroupsOf(<<"CS101", <<"1", "CNC", "1">>, "LAB", 0>>) # {}
  /\ GroupsOf(<<"CS101", <<"1", "1">>, "LAB", 0>>) = {}

\* ------------------------------------------------------------ claims (keys)
\* C26: the section is_consistent derives from a Variable key is the section
\* setup_csp built the key from, for every course id and section id, also
\* those that hold the separator '_': two Variables created for the same
\* section always conflict on an equal timeslot, and Variables of different
\* sections never conflict on the section rule.
C26_SectionOfKey ==
  pc = "keys_returned" =>
    LET first == call_args[1]
        second == call_args[2]
        val1 == call_args[3]
        val2 == call_args[4]
    IN /\ section_of(var_name(first[1], first[2], first[3])) = first[3]
       /\ section_of(var_name(second[1], second[2], second[3])) = second[3]
       /\ (val1[1] = val2[1] /\ first[3] = second[3]) => call_ret = FALSE
       /\ (val1[1] = val2[1] /\ first[3] # second[3]
             /\ val1[2] # val2[2] /\ val1[3] # val2[3]) => call_ret = TRUE

\* is_consistent returned true for the lectures CS_101 and C2 of the same
\* section S1 in the same timeslot, with different rooms and instructors.
C26_Witness ==
  /\ pc = "keys_returned" /\ call_ret = TRUE
  /\ call_args[1] = << <<"CS", "101">>, "Lecture", <<"S1">> >>
  /\ call_args[2] = << <<"C2">>, "Lecture", <<"S1">> >>
  /\ call_args[3] = <<"TS1", "R1", "I1">>
  /\ call_args[4] = <<"TS1", "R2", "I2">>

====
